---- MODULE Spec2Model ----
(***************************************************************************)
(* StreamDb (src/neo/StreamDB.rs): a single-file paged document store.     *)
(*                                                                         *)
(* The file is modelled byte-exactly in its layout (offsets, lengths, the  *)
(* 44-byte superblock written at offset 0, pages at page_id * PAGE_SIZE)   *)
(* and abstractly in its contents: a byte vector is a sequence of fields,  *)
(* each field a run of `w` bytes holding one encoded value.                *)
(***************************************************************************)
EXTENDS Integers, Sequences, FiniteSets, TLC

(***************************************************************************)
(* Program constants                                                       *)
(***************************************************************************)
PAGE_SIZE == 4096
PAGE_HEADER_SIZE == 32
FREE_LIST_HEADER_SIZE == 12
FREE_LIST_ENTRIES_PER_PAGE ==
    (PAGE_SIZE - PAGE_HEADER_SIZE - FREE_LIST_HEADER_SIZE) \div 8
\* i64::MAX in the source; TLC integers are 32 bits wide and every page id of
\* the model is far below either value, so the comparison is unaffected.
MAX_PAGES == 2147483647
BATCH_GROW_PAGES == 16
MAX_CONSECUTIVE_EMPTY_FREE_LIST == 5
FLAG_DATA_PAGE == 1
FLAG_TRIE_PAGE == 2
FLAG_FREE_LIST_PAGE == 4
FLAG_INDEX_PAGE == 8
\* initialize() reads the superblock into a 32-byte buffer ...
SUPERBLOCK_READ_SIZE == 32
\* ... and writes MAGIC (8) + three roots of i64 (8) + i32 (4) on a new file.
MAGIC_SIZE == 8
ROOT_SIZE == 12
SUPERBLOCK_WRITE_SIZE == MAGIC_SIZE + 3 * ROOT_SIZE

(***************************************************************************)
(* Bounds of the model                                                     *)
(***************************************************************************)
MaxWrites == 2        \* write_document calls that draw a fresh uuid
MaxTx == 2            \* begin_transaction calls
MaxIntents == 2       \* buffered writes, and buffered frees, per transaction
MaxOpens == 2         \* open_db calls
MaxFilePages == 21    \* pages of the file, where allocate_page is called directly
MaxFrees == 2         \* free_page calls made from outside
MaxReads == 2         \* next_stream_chunk calls that read a page
MaxPagerPages == 3    \* pages of the file, where the pager's clients are called directly

(***************************************************************************)
(* Byte vectors                                                            *)
(***************************************************************************)
Fld(w, t, i, s) == [w |-> w, t |-> t, i |-> i, s |-> s]
I32(n) == Fld(4, "int", n, <<>>)
I64(n) == Fld(8, "int", n, <<>>)
U8(c) == Fld(1, "chr", 0, <<c>>)
StrBytes(chars) == Fld(Len(chars), "str", 0, chars)
UuidBytes(id) == Fld(16, "uuid", id, <<>>)
\* bytes off .. off+n-1 of the caller's blob `tag`
BlobSlice(tag, off, n) == Fld(n, "blob", off, <<tag>>)
\* n bytes whose values the model does not track
Garbage(n) == Fld(n, "garbage", 0, <<>>)

RECURSIVE ByteLen(_)
ByteLen(bv) == IF bv = <<>> THEN 0 ELSE Head(bv).w + ByteLen(Tail(bv))

\* &data[..n]
RECURSIVE TakeBytes(_, _)
TakeBytes(bv, n) ==
    IF n = 0 \/ bv = <<>> THEN <<>>
    ELSE LET f == Head(bv) IN
         IF f.w <= n THEN <<f>> \o TakeBytes(Tail(bv), n - f.w)
         ELSE IF f.t = "blob" THEN <<BlobSlice(f.s[1], f.i, n)>>
         ELSE <<Garbage(n)>>

\* &data[n..]
RECURSIVE DropBytes(_, _)
DropBytes(bv, n) ==
    IF n = 0 \/ bv = <<>> THEN bv
    ELSE LET f == Head(bv) IN
         IF f.w <= n THEN DropBytes(Tail(bv), n - f.w)
         ELSE IF f.t = "blob"
              THEN <<BlobSlice(f.s[1], f.i + n, f.w - n)>> \o Tail(bv)
         ELSE <<Garbage(f.w - n)>> \o Tail(bv)

\* Vec::extend_from_slice: adjacent runs of the same blob are one run of bytes
RECURSIVE Normalize(_)
Normalize(bv) ==
    IF Len(bv) < 2 THEN (IF bv # <<>> /\ Head(bv).w = 0 THEN <<>> ELSE bv)
    ELSE LET a == bv[1]
             b == bv[2]
             rest == SubSeq(bv, 3, Len(bv))
         IN IF a.w = 0 THEN Normalize(Tail(bv))
            ELSE IF a.t = "blob" /\ b.t = "blob" /\ a.s = b.s /\ b.i = a.i + a.w
                 THEN Normalize(<<BlobSlice(a.s[1], a.i, a.w + b.w)>> \o rest)
            ELSE <<a>> \o Normalize(Tail(bv))

ExtendFromSlice(data, page_data) == Normalize(data \o page_data)

(***************************************************************************)
(* Paths: sequences of Unicode scalars                                     *)
(***************************************************************************)
\* the scalars of the model in code-point order (BTreeMap<char, _> order)
Alphabet == <<".", "/", ":", "\\", "a", "b">>
CharOrd(c) == CHOOSE k \in 1..Len(Alphabet) : Alphabet[k] = c

Reverse(s) == [k \in 1..Len(s) |-> s[Len(s) + 1 - k]]
StartsWith(s, p) == Len(p) <= Len(s) /\ SubSeq(s, 1, Len(p)) = p
Contains(s, p) ==
    \E k \in 1..(Len(s) + 1) :
        k + Len(p) - 1 <= Len(s) /\ SubSeq(s, k, k + Len(p) - 1) = p

validate_path(path) ==
    ~ ( path = <<>>
        \/ Contains(path, <<".", ".">>)
        \/ Contains(path, <<":", ":">>)
        \/ StartsWith(path, <<"/">>)
        \/ StartsWith(path, <<"\\">>) )

(***************************************************************************)
(* Results                                                                 *)
(***************************************************************************)
Ok(st) == [st |-> st, ok |-> TRUE, err |-> "", id |-> -1, data |-> <<>>]
OkId(st, id) == [st |-> st, ok |-> TRUE, err |-> "", id |-> id, data |-> <<>>]
OkData(st, data) == [st |-> st, ok |-> TRUE, err |-> "", id |-> -1, data |-> data]
Err(st, kind) == [st |-> st, ok |-> FALSE, err |-> kind, id |-> -1, data |-> <<>>]

(***************************************************************************)
(* Pages on disk                                                           *)
(*                                                                         *)
(* A page is its 32-byte header and the bytes last stored behind it.  The  *)
(* stored bytes are either the bytes of `data` (z = FALSE) or their snappy *)
(* image (z = TRUE).  A buffer is n bytes read from offset 32 of a page.   *)
(***************************************************************************)
RawBytes(data) == [z |-> FALSE, data |-> data]
\* snappy::compress, an opaque codec: the image is told apart from its input
SnappyCompress(data) == [z |-> TRUE, data |-> data]
\* length of the snappy image: a one-byte preamble and the input at ratio 2
SnappyLen(data) == 1 + (ByteLen(data) \div 2)
StoredLen(body) == IF body.z THEN SnappyLen(body.data) ELSE ByteLen(body.data)

EmptyBuf == [z |-> FALSE, data |-> <<>>, n |-> 0]
\* the first n bytes behind the header; n = StoredLen(body) reads exactly what
\* was stored, any other n a different byte string
BufOf(body, n) ==
    IF n = 0 THEN EmptyBuf ELSE [z |-> body.z, data |-> body.data, n |-> n]

\* Crc::<u32>::checksum, taken to separate the byte strings of the model
compute_crc(buf) == <<"crc32", buf>>

\* snappy::decompress: only an intact snappy image decodes
IsSnappyImage(buf) == buf.z /\ buf.n = SnappyLen(buf.data)
\* the bytes of an uncompressed buffer
BufBytes(buf) ==
    IF ~buf.z /\ buf.n = ByteLen(buf.data) THEN buf.data ELSE <<Garbage(buf.n)>>

PageHeader(crc, version, prev, next, flags, len) ==
    [crc |-> crc, version |-> version, prev_page_id |-> prev,
     next_page_id |-> next, flags |-> flags, data_length |-> len]

\* a page of a file region that set_len created and nothing wrote: zero bytes
\* (the CRC-32 of the empty string is 0)
ZeroPage ==
    [hdr |-> PageHeader(compute_crc(EmptyBuf), 0, 0, 0, 0, 0),
     body |-> RawBytes(<<>>)]

\* The superblock starts at offset 0, where page 0 starts: read as a page
\* header, the 32 bytes MAGIC, index root (-1, 0), trie root (-1, 0) are
\*   crc = MAGIC[0..4], version = MAGIC[4..8] = 0x7ADACEFA,
\*   prev_page_id = -1 (the index root's page id),
\*   next_page_id = index version and the low half of the trie root's id,
\*   flags = 0xFF, data_length = 0x00FFFFFF,
\* and the free-list root (-1, 0) lies in the first 12 payload bytes.
MagicCrc == <<"magic", EmptyBuf>>
MagicVersion == 2061160186
\* 0xFFFFFFFF00000000 as i64 is -2^32, below TLC's integers: any id below -1
\* is rejected the same way by every reader of a page id
SuperblockNext == -2147483647
SuperblockFlags == 255
SuperblockLen == 16777215
SuperblockPage ==
    [hdr |-> PageHeader(MagicCrc, MagicVersion, -1, SuperblockNext,
                        SuperblockFlags, SuperblockLen),
     body |-> RawBytes(<<I64(-1), I32(0)>>)]

VersionedLink(page_id, version) == [page_id |-> page_id, version |-> version]

PageAt(st, p) == IF p \in DOMAIN st.pages THEN st.pages[p] ELSE ZeroPage
PageOffset(p) == p * PAGE_SIZE
\* the first 8 bytes of the file are MAGIC
MagicIntact(st) ==
    /\ st.file_len >= MAGIC_SIZE
    /\ PageAt(st, 0).hdr.crc = MagicCrc
    /\ PageAt(st, 0).hdr.version = MagicVersion

(***************************************************************************)
(* File writes.  st.budget is the number of file writes the process still  *)
(* performs before it is aborted (-1: it is not aborted); a write past the *)
(* budget does not reach the file.                                         *)
(***************************************************************************)
Spend(b) == IF b > 0 THEN b - 1 ELSE b
PutPage(pages, p, page) ==
    [q \in (DOMAIN pages) \cup {p} |-> IF q = p THEN page ELSE pages[q]]

\* `let name = value;`: the value is computed once and named in what follows
Let(value, Rest(_)) == Rest(value)

\* File::set_len
SetLen(st, n) ==
    IF st.budget = 0 THEN st
    ELSE [st EXCEPT !.file_len = n,
                    !.pages = [q \in {r \in DOMAIN st.pages : PageOffset(r) < n}
                                 |-> st.pages[q]],
                    !.budget = Spend(@)]

\* the 32 header bytes of page p
PutHdr(st, p, h) ==
    IF st.budget = 0 THEN st
    ELSE [st EXCEPT !.pages = PutPage(@, p, [PageAt(st, p) EXCEPT !.hdr = h]),
                    !.budget = Spend(@)]

\* bytes stored from offset 32 of page p
PutBody(st, p, b) ==
    IF st.budget = 0 THEN st
    ELSE [st EXCEPT !.pages = PutPage(@, p, [PageAt(st, p) EXCEPT !.body = b]),
                    !.budget = Spend(@)]

(***************************************************************************)
(* Pager                                                                   *)
(***************************************************************************)
write_page_header(st, page_id, header) == PutHdr(st, page_id, header)

read_page_header(st, page_id) ==
    IF page_id < 0 \/ page_id >= MAX_PAGES
    THEN [ok |-> FALSE, err |-> "InvalidInput", hdr |-> ZeroPage.hdr]
    ELSE IF PageOffset(page_id) + PAGE_HEADER_SIZE > st.file_len
    THEN [ok |-> FALSE, err |-> "UnexpectedEof", hdr |-> ZeroPage.hdr]
    ELSE [ok |-> TRUE, err |-> "", hdr |-> PageAt(st, page_id).hdr]

write_raw_page(st, page_id, data, version) ==
    IF page_id < 0 \/ page_id >= MAX_PAGES THEN Err(st, "InvalidInput")
    ELSE Let(IF st.use_compression THEN SnappyCompress(data) ELSE RawBytes(data),
             LAMBDA compressed :
         Let(StoredLen(compressed), LAMBDA len :
         IF len > PAGE_SIZE - PAGE_HEADER_SIZE THEN Err(st, "InvalidInput")
         ELSE Let(PageHeader(compute_crc(BufOf(compressed, len)), version, -1, -1,
                             FLAG_DATA_PAGE, len), LAMBDA header :
              Let(write_page_header(st, page_id, header), LAMBDA s1 :
              Let(PutBody(s1, page_id, compressed), LAMBDA s2 :
              Ok([s2 EXCEPT
                    !.page_cache = [q \in (DOMAIN @) \ {page_id} |-> @[q]],
                    !.io_log = Append(@, <<"write", page_id>>)]))))))

read_raw_page(st, page_id) ==
    IF page_id < 0 \/ page_id >= MAX_PAGES THEN Err(st, "InvalidInput")
    ELSE IF page_id \in DOMAIN st.page_cache
    THEN OkData([st EXCEPT !.cache_stats.hits = @ + 1], st.page_cache[page_id])
    ELSE Let([st EXCEPT !.cache_stats.misses = @ + 1], LAMBDA s1 :
         Let(read_page_header(s1, page_id), LAMBDA h :
         IF ~h.ok THEN Err(s1, h.err)
         ELSE IF h.hdr.data_length < 0
                 \/ PageOffset(page_id) + PAGE_HEADER_SIZE + h.hdr.data_length
                      > s1.file_len
         THEN Err(s1, "UnexpectedEof")
         ELSE Let(BufOf(PageAt(s1, page_id).body, h.hdr.data_length),
                  LAMBDA buffer :
              IF ~s1.quick_mode /\ compute_crc(buffer) # h.hdr.crc
              THEN Err(s1, "InvalidData")
              ELSE IF s1.use_compression /\ ~IsSnappyImage(buffer)
              THEN Err(s1, "InvalidData")
              ELSE Let(IF s1.use_compression THEN buffer.data
                       ELSE BufBytes(buffer), LAMBDA data :
                   OkData([s1 EXCEPT !.page_cache = PutPage(@, page_id, data)],
                          data)))))

(***************************************************************************)
(* Allocator and free list                                                 *)
(*                                                                         *)
(* A free-list page stores, behind its header and uncompressed,            *)
(*   next free-list page (i64), used entry count (i32), page ids (i64 ...) *)
(***************************************************************************)
\* the integer of width w at field k of raw bytes; bytes never stored read as
\* zero
ReadInt(body, k, w) ==
    IF ~body.z /\ k <= Len(body.data)
       /\ body.data[k].t = "int" /\ body.data[k].w = w
    THEN body.data[k].i
    ELSE 0

FreeListBody(next, used, entries) ==
    RawBytes(<<I64(next), I32(used)>> \o [k \in 1..Len(entries) |-> I64(entries[k])])

\* the page ids stored in the entry slots of a free-list page
FreeListSlots(body) ==
    [k \in 1..(IF body.z \/ Len(body.data) < 2 THEN 0 ELSE Len(body.data) - 2)
       |-> ReadInt(body, k + 2, 8)]

update_free_list_used(st, page_id, used_entries) ==
    Let(FreeListSlots(PageAt(st, page_id).body), LAMBDA slots :
    PutBody(st, page_id, FreeListBody(-1, used_entries, slots)))

pop_free_page(st) ==
    IF st.free_list_root.page_id = -1 THEN Err(st, "NotFound")
    ELSE Let(st.free_list_root.page_id, LAMBDA root :
         Let(PageAt(st, root).body, LAMBDA body :
         Let(ReadInt(body, 1, 8), LAMBDA next_free_list_page :
         Let(ReadInt(body, 2, 4), LAMBDA used_entries :
         IF used_entries <= 0
         THEN Err([st EXCEPT !.free_list_root.page_id = next_free_list_page],
                  "NotFound")
         ELSE Let(ReadInt(body, 3, 8), LAMBDA page_id :
              Let(update_free_list_used(st, root, used_entries - 1), LAMBDA s1 :
              OkId(IF used_entries = 1
                   THEN [s1 EXCEPT !.free_list_root.page_id = next_free_list_page]
                   ELSE s1,
                   page_id)))))))

grow_file(st, num_pages) ==
    Let(st.current_size + num_pages * PAGE_SIZE, LAMBDA new_size :
    IF new_size \div PAGE_SIZE > MAX_PAGES THEN Err(st, "Other")
    ELSE OkId([SetLen(st, new_size) EXCEPT !.current_size = new_size],
              (new_size \div PAGE_SIZE) - num_pages))

\* allocate_page with the batch taken one request later
allocate_page_late_batch(st) ==
    Let(pop_free_page(st), LAMBDA pop :
    IF pop.ok
    THEN OkId([pop.st EXCEPT !.empty_free_list_count = 0], pop.id)
    ELSE Let([pop.st EXCEPT !.empty_free_list_count = @ + 1], LAMBDA s1 :
         IF s1.empty_free_list_count > MAX_CONSECUTIVE_EMPTY_FREE_LIST
         THEN Let(grow_file(s1, BATCH_GROW_PAGES), LAMBDA g :
              IF g.ok
              THEN OkId([g.st EXCEPT !.empty_free_list_count = 0], g.id)
              ELSE g)
         ELSE Let(s1.current_size \div PAGE_SIZE, LAMBDA page_id :
              IF page_id >= MAX_PAGES THEN Err(s1, "Other")
              ELSE Let([s1 EXCEPT !.current_size = @ + PAGE_SIZE], LAMBDA s2 :
                   OkId(SetLen(s2, page_id * PAGE_SIZE + PAGE_SIZE),
                        page_id)))))

\* allocate_page that grows the file by a page and leaves current_size as it
\* was, so that the next call hands out the same page
allocate_page_again(st) ==
    Let(pop_free_page(st), LAMBDA pop :
    IF pop.ok
    THEN OkId([pop.st EXCEPT !.empty_free_list_count = 0], pop.id)
    ELSE Let([pop.st EXCEPT !.empty_free_list_count = @ + 1], LAMBDA s1 :
         IF s1.empty_free_list_count >= MAX_CONSECUTIVE_EMPTY_FREE_LIST
         THEN Let(grow_file(s1, BATCH_GROW_PAGES), LAMBDA g :
              IF g.ok
              THEN OkId([g.st EXCEPT !.empty_free_list_count = 0], g.id)
              ELSE g)
         ELSE Let(s1.current_size \div PAGE_SIZE, LAMBDA page_id :
              IF page_id >= MAX_PAGES THEN Err(s1, "Other")
              ELSE OkId(SetLen(s1, page_id * PAGE_SIZE + PAGE_SIZE), page_id))))

\* allocate_page with the file sized to the start of the new page, not its end
allocate_page_short(st) ==
    Let(pop_free_page(st), LAMBDA pop :
    IF pop.ok
    THEN OkId([pop.st EXCEPT !.empty_free_list_count = 0], pop.id)
    ELSE Let([pop.st EXCEPT !.empty_free_list_count = @ + 1], LAMBDA s1 :
         IF s1.empty_free_list_count >= MAX_CONSECUTIVE_EMPTY_FREE_LIST
         THEN Let(grow_file(s1, BATCH_GROW_PAGES), LAMBDA g :
              IF g.ok
              THEN OkId([g.st EXCEPT !.empty_free_list_count = 0], g.id)
              ELSE g)
         ELSE Let(s1.current_size \div PAGE_SIZE, LAMBDA page_id :
              IF page_id >= MAX_PAGES THEN Err(s1, "Other")
              ELSE Let([s1 EXCEPT !.current_size = @ + PAGE_SIZE], LAMBDA s2 :
                   OkId(SetLen(s2, page_id * PAGE_SIZE), page_id)))))

allocate_page(st) ==
    Let(pop_free_page(st), LAMBDA pop :
    IF pop.ok
    THEN OkId([pop.st EXCEPT !.empty_free_list_count = 0], pop.id)
    ELSE Let([pop.st EXCEPT !.empty_free_list_count = @ + 1], LAMBDA s1 :
         IF s1.empty_free_list_count >= MAX_CONSECUTIVE_EMPTY_FREE_LIST
         THEN Let(grow_file(s1, BATCH_GROW_PAGES), LAMBDA g :
              IF g.ok
              THEN OkId([g.st EXCEPT !.empty_free_list_count = 0], g.id)
              ELSE g)
         ELSE Let(s1.current_size \div PAGE_SIZE, LAMBDA page_id :
              IF page_id >= MAX_PAGES THEN Err(s1, "Other")
              ELSE Let([s1 EXCEPT !.current_size = @ + PAGE_SIZE], LAMBDA s2 :
                   OkId(SetLen(s2, page_id * PAGE_SIZE + PAGE_SIZE),
                        page_id)))))

\* free_page is called by delete_by_path and commit_transaction and defined
\* nowhere in the source.  Modelled from the design: "Free pushes id onto the
\* free list head page; if that page is full, a new free-list page is
\* allocated for the chain."
WriteFreeListPage(st, page_id, next, entries) ==
    Let(FreeListBody(next, Len(entries), entries), LAMBDA body :
    Let(StoredLen(body), LAMBDA len :
    Let(PageHeader(compute_crc(BufOf(body, len)), st.free_list_root.version,
                   -1, -1, FLAG_FREE_LIST_PAGE, len), LAMBDA header :
    PutBody(write_page_header(st, page_id, header), page_id, body))))

free_page(st, page_id) ==
    Let(st.free_list_root.page_id, LAMBDA root :
    Let(PageAt(st, root).body, LAMBDA body :
    Let(ReadInt(body, 2, 4), LAMBDA used :
    Let([st EXCEPT !.io_log = Append(@, <<"free", page_id>>)], LAMBDA logged :
    IF root # -1 /\ used < FREE_LIST_ENTRIES_PER_PAGE
    THEN Ok(WriteFreeListPage(logged, root, ReadInt(body, 1, 8),
                SubSeq(FreeListSlots(body), 1, used) \o <<page_id>>))
    ELSE Let(allocate_page(logged), LAMBDA a :
         IF ~a.ok THEN a
         ELSE Ok([WriteFreeListPage(a.st, a.id, root, <<page_id>>)
                    EXCEPT !.free_list_root.page_id = a.id]))))))

\* the page ids the free list holds, following the chain from the root
RECURSIVE FreeFrom(_, _, _)
FreeFrom(st, page_id, fuel) ==
    IF page_id < 0 \/ fuel = 0 THEN {}
    ELSE Let(PageAt(st, page_id).body, LAMBDA body :
         Let(FreeListSlots(body), LAMBDA slots :
         {slots[k] : k \in {j \in 1..Len(slots) : j <= ReadInt(body, 2, 4)}}
         \cup FreeFrom(st, ReadInt(body, 1, 8), fuel - 1)))

FilePages(st) == st.file_len \div PAGE_SIZE
FreePages(st) == FreeFrom(st, st.free_list_root.page_id, FilePages(st) + 1)
\* pages of the file that are not on the free list
AllocatedCount(st) ==
    Cardinality({p \in 0..(FilePages(st) - 1) : p \notin FreePages(st)})

\* the pages that hold the free list itself, following the chain from the root
RECURSIVE FreeListChain(_, _, _)
FreeListChain(st, page_id, fuel) ==
    IF page_id < 0 \/ fuel = 0 THEN {}
    ELSE {page_id}
         \cup FreeListChain(st, ReadInt(PageAt(st, page_id).body, 1, 8), fuel - 1)

FreeListPages(st) ==
    FreeListChain(st, st.free_list_root.page_id, FilePages(st) + 1)
\* pages of the file that are neither on the free list nor part of it
InUsePages(st) ==
    {p \in 0..(FilePages(st) - 1) : p \notin FreePages(st) \cup FreeListPages(st)}

(***************************************************************************)
(* Document index                                                          *)
(***************************************************************************)
Document(id, first_page_id, current_version, paths) ==
    [id |-> id, first_page_id |-> first_page_id,
     current_version |-> current_version, paths |-> paths]

EmptyMap == [x \in {} |-> 0]
MapPut(m, k, v) == [x \in (DOMAIN m) \cup {k} |-> IF x = k THEN v ELSE m[x]]
MapRemove(m, k) == [x \in (DOMAIN m) \ {k} |-> m[x]]
MinOf(S) == CHOOSE x \in S : \A y \in S : x <= y

RECURSIVE SerializePaths(_)
SerializePaths(paths) ==
    IF paths = <<>> THEN <<>>
    ELSE <<I32(Len(Head(paths))), StrBytes(Head(paths))>>
         \o SerializePaths(Tail(paths))

\* BTreeMap iteration: ascending ids
RECURSIVE SerializeDocs(_, _)
SerializeDocs(index, ids) ==
    IF ids = {} THEN <<>>
    ELSE Let(MinOf(ids), LAMBDA id :
         Let(index[id], LAMBDA doc :
         <<UuidBytes(id), I64(doc.first_page_id), I32(doc.current_version),
           I32(Len(doc.paths))>>
         \o SerializePaths(doc.paths)
         \o SerializeDocs(index, ids \ {id})))

serialize_index(index) ==
    <<I32(Cardinality(DOMAIN index))>> \o SerializeDocs(index, DOMAIN index)

\* a Cursor read of one field: it succeeds where the bytes hold such a field
IsFld(bv, k, t, w) == k <= Len(bv) /\ bv[k].t = t /\ bv[k].w = w

RECURSIVE ParsePaths(_, _, _, _)
ParsePaths(bv, k, n, acc) ==
    IF n <= 0 THEN [ok |-> TRUE, k |-> k, paths |-> acc]
    ELSE IF IsFld(bv, k, "int", 4) /\ IsFld(bv, k + 1, "str", bv[k].i)
    THEN ParsePaths(bv, k + 2, n - 1, Append(acc, bv[k + 1].s))
    ELSE [ok |-> FALSE, k |-> k, paths |-> acc]

RECURSIVE ParseDocs(_, _, _, _)
ParseDocs(bv, k, n, index) ==
    IF n <= 0 THEN [ok |-> TRUE, index |-> index]
    ELSE IF IsFld(bv, k, "uuid", 16) /\ IsFld(bv, k + 1, "int", 8)
            /\ IsFld(bv, k + 2, "int", 4) /\ IsFld(bv, k + 3, "int", 4)
    THEN Let(ParsePaths(bv, k + 4, bv[k + 3].i, <<>>), LAMBDA ps :
         IF ~ps.ok THEN [ok |-> FALSE, index |-> index]
         ELSE ParseDocs(bv, ps.k, n - 1,
                  MapPut(index, bv[k].i,
                         Document(bv[k].i, bv[k + 1].i, bv[k + 2].i, ps.paths))))
    ELSE [ok |-> FALSE, index |-> index]

deserialize_index(data) ==
    IF IsFld(data, 1, "int", 4) THEN ParseDocs(data, 2, data[1].i, EmptyMap)
    ELSE [ok |-> FALSE, index |-> EmptyMap]

read_index(st) ==
    IF st.document_index_root.page_id = -1
    THEN [st |-> st, ok |-> TRUE, err |-> "", index |-> EmptyMap]
    ELSE Let(read_raw_page(st, st.document_index_root.page_id), LAMBDA r :
         IF ~r.ok THEN [st |-> r.st, ok |-> FALSE, err |-> r.err, index |-> EmptyMap]
         ELSE Let(deserialize_index(r.data), LAMBDA d :
              IF ~d.ok
              THEN [st |-> r.st, ok |-> FALSE, err |-> "InvalidData",
                    index |-> EmptyMap]
              ELSE [st |-> r.st, ok |-> TRUE, err |-> "", index |-> d.index]))

(***************************************************************************)
(* Reverse path trie: one node per page                                    *)
(***************************************************************************)
ReverseTrieNode(edge, parent_page_id, self_page_id, has_doc, document_id, children) ==
    [edge |-> edge, parent_page_id |-> parent_page_id,
     self_page_id |-> self_page_id, has_doc |-> has_doc,
     document_id |-> document_id, children |-> children]

EmptyNode == ReverseTrieNode(<<>>, -1, -1, FALSE, 0, EmptyMap)

\* the keys of a child map in BTreeMap order
RECURSIVE SortedChars(_)
SortedChars(S) ==
    IF S = {} THEN <<>>
    ELSE Let(CHOOSE x \in S : \A y \in S : CharOrd(x) <= CharOrd(y), LAMBDA c :
         <<c>> \o SortedChars(S \ {c}))

RECURSIVE SerializeChildren(_, _)
SerializeChildren(children, chars) ==
    IF chars = <<>> THEN <<>>
    ELSE <<U8(Head(chars)), I64(children[Head(chars)])>>
         \o SerializeChildren(children, Tail(chars))

serialize_trie_node(node) ==
    <<I32(Len(node.edge)), StrBytes(node.edge), I64(node.parent_page_id),
      I64(node.self_page_id), I32(IF node.has_doc THEN 1 ELSE 0)>>
    \o (IF node.has_doc THEN <<UuidBytes(node.document_id)>> ELSE <<>>)
    \o <<I32(Cardinality(DOMAIN node.children))>>
    \o SerializeChildren(node.children, SortedChars(DOMAIN node.children))

RECURSIVE ParseChildren(_, _, _, _)
ParseChildren(bv, k, n, children) ==
    IF n <= 0 THEN [ok |-> TRUE, children |-> children]
    ELSE IF IsFld(bv, k, "chr", 1) /\ IsFld(bv, k + 1, "int", 8)
    THEN ParseChildren(bv, k + 2, n - 1, MapPut(children, bv[k].s[1], bv[k + 1].i))
    ELSE [ok |-> FALSE, children |-> children]

deserialize_trie_node(data) ==
    IF IsFld(data, 1, "int", 4) /\ IsFld(data, 2, "str", data[1].i)
       /\ IsFld(data, 3, "int", 8) /\ IsFld(data, 4, "int", 8)
       /\ IsFld(data, 5, "int", 4)
    THEN Let(data[5].i # 0, LAMBDA has_doc :
         Let(IF has_doc THEN 7 ELSE 6, LAMBDA k :
         IF (has_doc => IsFld(data, 6, "uuid", 16)) /\ IsFld(data, k, "int", 4)
         THEN Let(ParseChildren(data, k + 1, data[k].i, EmptyMap), LAMBDA cs :
              [ok |-> cs.ok,
               node |-> ReverseTrieNode(data[2].s, data[3].i, data[4].i,
                           has_doc, IF has_doc THEN data[6].i ELSE 0,
                           cs.children)])
         ELSE [ok |-> FALSE, node |-> EmptyNode]))
    ELSE [ok |-> FALSE, node |-> EmptyNode]

\* read_raw_page followed by deserialize_trie_node
ReadNode(st, page_id) ==
    Let(read_raw_page(st, page_id), LAMBDA r :
    IF ~r.ok THEN [st |-> r.st, ok |-> FALSE, err |-> r.err, node |-> EmptyNode]
    ELSE Let(deserialize_trie_node(r.data), LAMBDA d :
         IF ~d.ok
         THEN [st |-> r.st, ok |-> FALSE, err |-> "InvalidData", node |-> EmptyNode]
         ELSE [st |-> r.st, ok |-> TRUE, err |-> "", node |-> d.node]))

\* node.document_id.ok_or_else(NotFound)
DocIdOrNotFound(st, node) ==
    IF node.has_doc THEN OkId(st, node.document_id) ELSE Err(st, "NotFound")

\* the loop of get_document_id_by_path; a walk that outlasts its fuel is one
\* that never returns
RECURSIVE LookupLoop(_, _, _, _)
LookupLoop(st, current_page_id, remaining, fuel) ==
    IF fuel = 0 THEN Err(st, "Diverges")
    ELSE Let(ReadNode(st, current_page_id), LAMBDA n :
         IF ~n.ok THEN Err(n.st, n.err)
         ELSE IF remaining = <<>> THEN DocIdOrNotFound(n.st, n.node)
         ELSE IF ~StartsWith(remaining, n.node.edge) THEN Err(n.st, "NotFound")
         ELSE Let(SubSeq(remaining, Len(n.node.edge) + 1, Len(remaining)),
                  LAMBDA rest :
              IF rest = <<>> THEN DocIdOrNotFound(n.st, n.node)
              ELSE IF rest[1] \in DOMAIN n.node.children
              THEN LookupLoop(n.st, n.node.children[rest[1]], rest, fuel - 1)
              ELSE Err(n.st, "NotFound")))

WalkFuel(st, path) == Len(path) + FilePages(st) + 2

get_document_id_by_path(st, path) ==
    IF ~validate_path(path) THEN Err(st, "InvalidInput")
    ELSE IF st.trie_root.page_id = -1 THEN Err(st, "NotFound")
    ELSE LookupLoop(st, st.trie_root.page_id, Reverse(path), WalkFuel(st, path))

\* results of an operation that returns a list of paths
OkPaths(st, paths) == [st |-> st, ok |-> TRUE, err |-> "", paths |-> paths]
ErrPaths(st, kind) == [st |-> st, ok |-> FALSE, err |-> kind, paths |-> <<>>]

\* trie_collect_paths(node, prefix, results); CollectChildren is its loop over
\* node.children.values()
RECURSIVE trie_collect_paths(_, _, _, _, _)
RECURSIVE CollectChildren(_, _, _, _, _, _)
trie_collect_paths(st, node, prefix, results, fuel) ==
    Let(IF prefix = <<>> THEN node.edge ELSE node.edge \o prefix,
        LAMBDA new_prefix :
    CollectChildren(st, node, SortedChars(DOMAIN node.children), new_prefix,
                    IF node.has_doc THEN Append(results, Reverse(new_prefix))
                    ELSE results,
                    fuel))

CollectChildren(st, node, chars, new_prefix, results, fuel) ==
    IF chars = <<>> THEN OkPaths(st, results)
    ELSE IF fuel = 0 THEN ErrPaths(st, "Diverges")
    ELSE Let(ReadNode(st, node.children[Head(chars)]), LAMBDA c :
         IF ~c.ok THEN ErrPaths(c.st, c.err)
         ELSE Let(trie_collect_paths(c.st, c.node, new_prefix, results, fuel - 1),
                  LAMBDA sub :
              IF ~sub.ok THEN sub
              ELSE CollectChildren(sub.st, node, Tail(chars), new_prefix,
                                   sub.paths, fuel)))

\* results.into_iter().filter(|p| p.starts_with(prefix))
FilterPrefix(paths, prefix) == SelectSeq(paths, LAMBDA q : StartsWith(q, prefix))

CollectFiltered(st, node, prefix, fuel) ==
    Let(trie_collect_paths(st, node, <<>>, <<>>, fuel), LAMBDA c :
    IF ~c.ok THEN c ELSE OkPaths(c.st, FilterPrefix(c.paths, prefix)))

RECURSIVE SearchLoop(_, _, _, _, _)
SearchLoop(st, current_page_id, remaining, prefix, fuel) ==
    IF fuel = 0 THEN ErrPaths(st, "Diverges")
    ELSE Let(ReadNode(st, current_page_id), LAMBDA n :
         IF ~n.ok THEN ErrPaths(n.st, n.err)
         ELSE IF remaining = <<>> THEN CollectFiltered(n.st, n.node, prefix, fuel)
         ELSE IF ~StartsWith(remaining, n.node.edge) THEN OkPaths(n.st, <<>>)
         ELSE Let(SubSeq(remaining, Len(n.node.edge) + 1, Len(remaining)),
                  LAMBDA rest :
              IF rest = <<>> THEN CollectFiltered(n.st, n.node, prefix, fuel)
              ELSE IF rest[1] \in DOMAIN n.node.children
              THEN SearchLoop(n.st, n.node.children[rest[1]], rest, prefix,
                              fuel - 1)
              ELSE OkPaths(n.st, <<>>)))

search_paths(st, prefix) ==
    IF ~validate_path(prefix) THEN ErrPaths(st, "InvalidInput")
    ELSE IF st.trie_root.page_id = -1 THEN OkPaths(st, <<>>)
    ELSE SearchLoop(st, st.trie_root.page_id, Reverse(prefix), prefix,
                    WalkFuel(st, prefix))

\* remaining.chars().zip(edge.chars()).take_while(|(a, b)| a == b).count()
RECURSIVE CommonPrefix(_, _)
CommonPrefix(a, b) ==
    IF a = <<>> \/ b = <<>> \/ Head(a) # Head(b) THEN 0
    ELSE 1 + CommonPrefix(Tail(a), Tail(b))

\* trie_insert: the root is created when absent; the loop body returns in its
\* first iteration, and sets the terminal id only where edge and key are both
\* consumed (the split cases are left out of the source)
TrieInsertAt(st, current_page_id, remaining, id) ==
    IF remaining = <<>> THEN Ok(st)
    ELSE Let(ReadNode(st, current_page_id), LAMBDA n :
         IF ~n.ok THEN Err(n.st, n.err)
         ELSE Let(CommonPrefix(remaining, n.node.edge), LAMBDA common_prefix :
              IF common_prefix = Len(n.node.edge)
                 /\ common_prefix = Len(remaining)
              THEN Let([n.node EXCEPT !.has_doc = TRUE, !.document_id = id],
                       LAMBDA new_node :
                   Let(write_raw_page(n.st, current_page_id,
                                      serialize_trie_node(new_node), 0),
                       LAMBDA w :
                   IF ~w.ok THEN w ELSE Ok(w.st)))
              ELSE Ok(n.st)))

trie_insert(st, path, id) ==
    Let(Reverse(path), LAMBDA reversed :
    IF st.trie_root.page_id = -1
    THEN Let(allocate_page(st), LAMBDA a :
         IF ~a.ok THEN a
         ELSE Let([a.st EXCEPT !.trie_root = VersionedLink(a.id, 0)], LAMBDA s1 :
              Let(write_raw_page(s1, a.id,
                      serialize_trie_node(
                          ReverseTrieNode(<<>>, -1, a.id, FALSE, 0, EmptyMap)),
                      0), LAMBDA w :
              IF ~w.ok THEN w
              ELSE TrieInsertAt(w.st, a.id, reversed, id))))
    ELSE TrieInsertAt(st, st.trie_root.page_id, reversed, id))

\* trie_delete: the pruning is left out of the source
trie_delete(st, path) ==
    IF st.trie_root.page_id = -1 THEN Err(st, "NotFound") ELSE Ok(st)

(***************************************************************************)
(* Documents                                                               *)
(***************************************************************************)
Min(a, b) == IF a <= b THEN a ELSE b

\* the while loop of write_document over data_remaining
RECURSIVE ChunkLoop(_, _, _, _)
ChunkLoop(st, data_remaining, current_page_id, prev_page_id) ==
    IF data_remaining = <<>> THEN OkId(st, current_page_id)
    ELSE Let(Min(ByteLen(data_remaining), PAGE_SIZE - PAGE_HEADER_SIZE),
             LAMBDA chunk_size :
         Let(TakeBytes(data_remaining, chunk_size), LAMBDA chunk :
         Let(DropBytes(data_remaining, chunk_size), LAMBDA rest :
         Let(allocate_page(st), LAMBDA a :
         IF ~a.ok THEN a
         ELSE Let(a.id, LAMBDA new_page_id :
              Let(IF rest = <<>> THEN OkId(a.st, -1) ELSE allocate_page(a.st),
                  LAMBDA nx :
              IF ~nx.ok THEN nx
              ELSE Let(PageHeader(compute_crc(BufOf(RawBytes(chunk),
                                                    ByteLen(chunk))),
                                  0, prev_page_id, nx.id, FLAG_DATA_PAGE,
                                  ByteLen(chunk)), LAMBDA header :
                   Let(write_raw_page(nx.st, new_page_id, chunk, 0), LAMBDA w :
                   IF ~w.ok THEN w
                   ELSE ChunkLoop(write_page_header(w.st, new_page_id, header),
                                  rest,
                                  IF current_page_id = -1 THEN new_page_id
                                  ELSE current_page_id,
                                  new_page_id)))))))))

\* write_document with an index page allocated when the database has none
write_document_index_alloc(st, path, data, id) ==
    IF ~validate_path(path) THEN Err(st, "InvalidInput")
    ELSE Let(ChunkLoop(st, data, -1, -1), LAMBDA c :
         IF ~c.ok THEN c
         ELSE Let(read_index(c.st), LAMBDA ix :
              IF ~ix.ok THEN Err(ix.st, ix.err)
              ELSE Let(Document(id, c.id, 0, <<path>>), LAMBDA doc :
                   Let(MapPut(ix.index, id, doc), LAMBDA index :
                   Let(IF ix.st.document_index_root.page_id = -1
                       THEN allocate_page(ix.st) ELSE OkId(ix.st, ix.st.document_index_root.page_id),
                       LAMBDA a :
                   IF ~a.ok THEN a
                   ELSE Let([a.st EXCEPT !.document_index_root.page_id = a.id],
                            LAMBDA s1 :
                        Let(write_raw_page(s1, a.id, serialize_index(index),
                                           s1.document_index_root.version),
                            LAMBDA w :
                        IF ~w.ok THEN w
                        ELSE Let(trie_insert(w.st, path, id), LAMBDA t :
                             IF ~t.ok THEN t ELSE OkId(t.st, id)))))))))

\* id is the value Uuid::new_v4() draws
write_document(st, path, data, id) ==
    IF ~validate_path(path) THEN Err(st, "InvalidInput")
    ELSE Let(ChunkLoop(st, data, -1, -1), LAMBDA c :
         IF ~c.ok THEN c
         ELSE Let(read_index(c.st), LAMBDA ix :
              IF ~ix.ok THEN Err(ix.st, ix.err)
              ELSE Let(Document(id, c.id, 0, <<path>>), LAMBDA doc :
                   Let(MapPut(ix.index, id, doc), LAMBDA index :
                   Let(write_raw_page(ix.st, ix.st.document_index_root.page_id,
                                      serialize_index(index),
                                      ix.st.document_index_root.version),
                       LAMBDA w :
                   IF ~w.ok THEN w
                   ELSE Let(trie_insert(w.st, path, id), LAMBDA t :
                        IF ~t.ok THEN t ELSE OkId(t.st, id)))))))

\* the loop of get over the chain; a walk that outlasts its fuel never returns
RECURSIVE ReadChain(_, _, _, _)
ReadChain(st, current_page_id, data, fuel) ==
    IF current_page_id = -1 THEN OkData(st, data)
    ELSE IF fuel = 0 THEN Err(st, "Diverges")
    ELSE Let(read_raw_page(st, current_page_id), LAMBDA r :
         IF ~r.ok THEN Err(r.st, r.err)
         ELSE Let(read_page_header(r.st, current_page_id), LAMBDA h :
              IF ~h.ok THEN Err(r.st, h.err)
              ELSE ReadChain(r.st, h.hdr.next_page_id,
                             ExtendFromSlice(data, r.data), fuel - 1)))

get(st, path) ==
    IF ~validate_path(path) THEN Err(st, "InvalidInput")
    ELSE Let(get_document_id_by_path(st, path), LAMBDA l :
         IF ~l.ok THEN l
         ELSE Let(read_index(l.st), LAMBDA ix :
              IF ~ix.ok THEN Err(ix.st, ix.err)
              ELSE IF l.id \notin DOMAIN ix.index THEN Err(ix.st, "NotFound")
              ELSE ReadChain(ix.st, ix.index[l.id].first_page_id, <<>>,
                             FilePages(ix.st) + 1)))

\* the loop of delete_by_path that frees the chain
RECURSIVE FreeChain(_, _, _)
FreeChain(st, current_page_id, fuel) ==
    IF current_page_id = -1 THEN Ok(st)
    ELSE IF fuel = 0 THEN Err(st, "Diverges")
    ELSE Let(read_page_header(st, current_page_id), LAMBDA h :
         IF ~h.ok THEN Err(st, h.err)
         ELSE Let(free_page(st, current_page_id), LAMBDA f :
              IF ~f.ok THEN f
              ELSE FreeChain(f.st, h.hdr.next_page_id, fuel - 1)))

RECURSIVE TrieDeleteAll(_, _)
TrieDeleteAll(st, paths) ==
    IF paths = <<>> THEN Ok(st)
    ELSE Let(trie_delete(st, Head(paths)), LAMBDA d :
         IF ~d.ok THEN d ELSE TrieDeleteAll(d.st, Tail(paths)))

delete_by_path(st, path) ==
    IF ~validate_path(path) THEN Err(st, "InvalidInput")
    ELSE Let(get_document_id_by_path(st, path), LAMBDA l :
         IF ~l.ok THEN l
         ELSE Let(read_index(l.st), LAMBDA ix :
              IF ~ix.ok THEN Err(ix.st, ix.err)
              ELSE IF l.id \notin DOMAIN ix.index THEN Err(ix.st, "NotFound")
              ELSE Let(ix.index[l.id], LAMBDA doc :
                   Let(MapRemove(ix.index, l.id), LAMBDA index :
                   Let(FreeChain(ix.st, doc.first_page_id, FilePages(ix.st) + 1),
                       LAMBDA fc :
                   IF ~fc.ok THEN fc
                   ELSE Let(TrieDeleteAll(fc.st, doc.paths), LAMBDA td :
                        IF ~td.ok THEN td
                        ELSE Let(write_raw_page(td.st,
                                     td.st.document_index_root.page_id,
                                     serialize_index(index),
                                     td.st.document_index_root.version),
                                 LAMBDA w :
                             IF ~w.ok THEN w ELSE Ok(w.st))))))))

\* start_stream: the stream id is the document's first page id
start_stream(st, path) ==
    Let(get_document_id_by_path(st, path), LAMBDA l :
    IF ~l.ok THEN l
    ELSE Let(read_index(l.st), LAMBDA ix :
         IF ~ix.ok THEN Err(ix.st, ix.err)
         ELSE IF l.id \notin DOMAIN ix.index THEN Err(ix.st, "NotFound")
         ELSE OkId(ix.st, ix.index[l.id].first_page_id)))

\* what next_stream_chunk returns: the payload, and in `next` the page ids it
\* hands back
Chunk(st, data) ==
    [st |-> st, ok |-> TRUE, err |-> "", data |-> data, next |-> <<>>]
NoChunk(st, kind) ==
    [st |-> st, ok |-> FALSE, err |-> kind, data |-> <<>>, next |-> <<>>]

\* next_stream_chunk reads the page and its header and returns the payload;
\* the header it read is dropped
next_stream_chunk(st, stream_id) ==
    IF stream_id = -1 THEN NoChunk(st, "NotFound")
    ELSE Let(read_raw_page(st, stream_id), LAMBDA r :
         IF ~r.ok THEN NoChunk(r.st, r.err)
         ELSE Let(read_page_header(r.st, stream_id), LAMBDA h :
              IF ~h.ok THEN NoChunk(r.st, h.err)
              ELSE Chunk(r.st, r.data)))

\* bind_addon_path(path, addon): the document is the one `path` already names
bind_addon_path(st, path) ==
    IF ~validate_path(path) THEN Err(st, "InvalidInput")
    ELSE Let(get_document_id_by_path(st, path), LAMBDA l :
         IF ~l.ok THEN l
         ELSE Let(read_index(l.st), LAMBDA ix :
              IF ~ix.ok THEN Err(ix.st, ix.err)
              ELSE IF l.id \notin DOMAIN ix.index THEN Err(ix.st, "NotFound")
              ELSE Let([ix.index EXCEPT ![l.id].paths = Append(@, path)],
                       LAMBDA index :
                   Let(write_raw_page(ix.st, ix.st.document_index_root.page_id,
                                      serialize_index(index),
                                      ix.st.document_index_root.version),
                       LAMBDA w :
                   IF ~w.ok THEN w
                   ELSE Let(trie_insert(w.st, path, l.id), LAMBDA t :
                        IF ~t.ok THEN t ELSE Ok(t.st))))))

set_quick_mode(st, enabled) == [st EXCEPT !.quick_mode = enabled]

(***************************************************************************)
(* Transactions                                                            *)
(***************************************************************************)
Transaction(writes, frees) == [writes |-> writes, frees |-> frees]
\* Vec::remove(index), index from 0
RemoveAt(seq, index) ==
    SubSeq(seq, 1, index) \o SubSeq(seq, index + 2, Len(seq))

begin_transaction(st) ==
    LET tx_id == Len(st.transactions)
    IN OkId([st EXCEPT !.transactions = Append(@, Transaction(<<>>, <<>>))], tx_id)

\* for (page_id, data, version) in tx.writes { write_raw_page(..)? }
RECURSIVE ApplyWrites(_, _)
ApplyWrites(st, writes) ==
    IF writes = <<>> THEN Ok(st)
    ELSE Let(write_raw_page(st, Head(writes).page_id, Head(writes).data,
                            Head(writes).version), LAMBDA w :
         IF ~w.ok THEN w ELSE ApplyWrites(w.st, Tail(writes)))

\* for page_id in tx.frees { free_page(page_id)? }
RECURSIVE ApplyFrees(_, _)
ApplyFrees(st, frees) ==
    IF frees = <<>> THEN Ok(st)
    ELSE Let(free_page(st, Head(frees)), LAMBDA f :
         IF ~f.ok THEN f ELSE ApplyFrees(f.st, Tail(frees)))

\* tx_id as usize >= txs.len(): a negative id converts to a huge index
InvalidTxId(st, tx_id) == tx_id < 0 \/ tx_id >= Len(st.transactions)

\* commit_transaction with its two loops exchanged
commit_frees_first(st, tx_id) ==
    IF InvalidTxId(st, tx_id) THEN Err(st, "InvalidInput")
    ELSE Let(st.transactions[tx_id + 1], LAMBDA tx :
         Let([st EXCEPT !.transactions = RemoveAt(@, tx_id)], LAMBDA s1 :
         Let(ApplyFrees(s1, tx.frees), LAMBDA f :
         IF ~f.ok THEN f ELSE ApplyWrites(f.st, tx.writes))))

commit_transaction(st, tx_id) ==
    IF InvalidTxId(st, tx_id) THEN Err(st, "InvalidInput")
    ELSE Let(st.transactions[tx_id + 1], LAMBDA tx :
         Let([st EXCEPT !.transactions = RemoveAt(@, tx_id)], LAMBDA s1 :
         Let(ApplyWrites(s1, tx.writes), LAMBDA w :
         IF ~w.ok THEN w ELSE ApplyFrees(w.st, tx.frees))))

rollback_transaction(st, tx_id) ==
    IF InvalidTxId(st, tx_id) THEN Err(st, "InvalidInput")
    ELSE Ok([st EXCEPT !.transactions = RemoveAt(@, tx_id)])

(***************************************************************************)
(* Open, recovery, close                                                   *)
(***************************************************************************)
\* header.flags & FLAG != 0, for a one-bit FLAG
HasFlag(flags, flag) == (flags \div flag) % 2 = 1

RecoverState(st, used, index, trie) ==
    [st |-> st, ok |-> TRUE, err |-> "", used |-> used, index |-> index,
     trie |-> trie]
RecoverErr(st, kind) ==
    [st |-> st, ok |-> FALSE, err |-> kind, used |-> {}, index |-> EmptyMap,
     trie |-> EmptyMap]

RECURSIVE MapMerge(_, _, _)
MapMerge(into, from, keys) ==
    IF keys = {} THEN into
    ELSE Let(MinOf(keys), LAMBDA k :
         MapMerge(MapPut(into, k, from[k]), from, keys \ {k}))

\* the page scan of recover(); the trie branch reads `data`, which the source
\* binds only in the index branch: it is taken to be the page's bytes
RECURSIVE RecoverScan(_, _, _, _, _, _)
RecoverScan(st, page_id, max_page_id, used, index, trie) ==
    IF page_id >= max_page_id THEN RecoverState(st, used, index, trie)
    ELSE Let(read_page_header(st, page_id), LAMBDA h :
         IF ~h.ok
         THEN RecoverScan(st, page_id + 1, max_page_id, used, index, trie)
         ELSE Let(h.hdr.flags, LAMBDA flags :
              IF ~( HasFlag(flags, FLAG_DATA_PAGE)
                    \/ HasFlag(flags, FLAG_TRIE_PAGE)
                    \/ HasFlag(flags, FLAG_INDEX_PAGE) )
              THEN RecoverScan(st, page_id + 1, max_page_id, used, index, trie)
              ELSE IF HasFlag(flags, FLAG_INDEX_PAGE)
              THEN Let(read_raw_page(st, page_id), LAMBDA r :
                   IF ~r.ok THEN RecoverErr(r.st, r.err)
                   ELSE Let(deserialize_index(r.data), LAMBDA d :
                        IF ~d.ok THEN RecoverErr(r.st, "InvalidData")
                        ELSE RecoverScan(r.st, page_id + 1, max_page_id,
                                 used \cup {page_id},
                                 MapMerge(index, d.index, DOMAIN d.index), trie)))
              ELSE IF HasFlag(flags, FLAG_TRIE_PAGE)
              THEN Let(ReadNode(st, page_id), LAMBDA n :
                   IF ~n.ok THEN RecoverErr(n.st, n.err)
                   ELSE RecoverScan(n.st, page_id + 1, max_page_id,
                            used \cup {page_id}, index,
                            MapPut(trie, page_id, n.node)))
              ELSE RecoverScan(st, page_id + 1, max_page_id, used \cup {page_id},
                               index, trie)))

RECURSIVE SortedIds(_)
SortedIds(S) ==
    IF S = {} THEN <<>>
    ELSE Let(MinOf(S), LAMBDA q : <<q>> \o SortedIds(S \ {q}))

\* the last third of recover(): a page for the rebuilt index, one for the trie
RecoverRoots(st, index, trie) ==
    Let(IF DOMAIN index = {} THEN Ok(st)
        ELSE Let(allocate_page(st), LAMBDA a :
             IF ~a.ok THEN a
             ELSE Let(write_raw_page(a.st, a.id, serialize_index(index), 0),
                      LAMBDA w :
                  IF ~w.ok THEN w
                  ELSE Ok([w.st EXCEPT !.document_index_root =
                                          VersionedLink(a.id, 0)]))),
        LAMBDA i :
    IF ~i.ok \/ DOMAIN trie = {} THEN i
    ELSE Let(allocate_page(i.st), LAMBDA b :
         IF ~b.ok THEN b
         ELSE Let(IF st.trie_root.page_id \in DOMAIN trie
                  THEN trie[st.trie_root.page_id] ELSE EmptyNode,
                  LAMBDA root_node :
              Let(write_raw_page(b.st, b.id, serialize_trie_node(root_node), 0),
                  LAMBDA w :
              IF ~w.ok THEN w
              ELSE Ok([w.st EXCEPT !.trie_root = VersionedLink(b.id, 0)])))))

recover(st) ==
    Let(st.file_len, LAMBDA current_size :
    Let(current_size \div PAGE_SIZE, LAMBDA max_page_id :
    Let(RecoverScan(st, 0, max_page_id, {}, EmptyMap, EmptyMap), LAMBDA scan :
    IF ~scan.ok THEN Err(scan.st, scan.err)
    ELSE Let(SortedIds({q \in 0..(max_page_id - 1) : q \notin scan.used}),
             LAMBDA free_pages :
         Let(IF free_pages = <<>>
             THEN [scan.st EXCEPT !.free_list_root.page_id = -1]
             ELSE [WriteFreeListPage(scan.st, free_pages[1], -1, Tail(free_pages))
                     EXCEPT !.free_list_root.page_id = free_pages[1]],
             LAMBDA s1 :
         Let(RecoverRoots(s1, scan.index, scan.trie), LAMBDA roots :
         IF ~roots.ok THEN roots
         ELSE Ok([roots.st EXCEPT !.current_size = current_size])))))))

\* the roots as the 32-byte buffer holds them: the index root in bytes 8..20
\* (page 0's prev_page_id field, then a version), the trie root in bytes
\* 20..32.  No operation rewrites a root of the superblock, so where MAGIC is
\* intact they are the (-1, 0) initialize() wrote.
SuperblockIndexRoot(st) == VersionedLink(PageAt(st, 0).hdr.prev_page_id, 0)
SuperblockTrieRoot(st) == VersionedLink(-1, 0)

initialize(st) ==
    IF st.file_len = 0
    THEN \* new DB: MAGIC and three roots (-1, 0), written at offset 0
         recover([st EXCEPT !.file_len = SUPERBLOCK_WRITE_SIZE,
                            !.pages = PutPage(@, 0, SuperblockPage)])
    ELSE IF ~MagicIntact(st) THEN Err(st, "InvalidData")
    \* the Cursor over the 32-byte buffer yields MAGIC, the index root and the
    \* trie root; the read of the free-list root runs past its end
    ELSE IF MAGIC_SIZE + 3 * ROOT_SIZE > SUPERBLOCK_READ_SIZE
    THEN Err(st, "UnexpectedEof")
    ELSE recover([st EXCEPT !.document_index_root = SuperblockIndexRoot(st),
                            !.trie_root = SuperblockTrieRoot(st)])

\* the StreamDb value open_db builds over the file
NewHandle(flen, pgs, use_compression, quick_mode) ==
    [file_len |-> flen, pages |-> pgs, budget |-> -1,
     use_compression |-> use_compression,
     current_size |-> 0,
     document_index_root |-> VersionedLink(-1, 0),
     trie_root |-> VersionedLink(-1, 0),
     free_list_root |-> VersionedLink(-1, 0),
     page_cache |-> EmptyMap,
     cache_stats |-> [hits |-> 0, misses |-> 0],
     quick_mode |-> quick_mode,
     transactions |-> <<>>,
     empty_free_list_count |-> 0,
     io_log |-> <<>>]

\* open_db: the file is opened (created when absent), mapped when
\* config.use_mmap, and initialize runs on the new handle.  The mapping of
\* page_size * max_pages bytes is taken to succeed and to cover the file.
open_db(flen, pgs, use_compression, quick_mode) ==
    initialize(NewHandle(flen, pgs, use_compression, quick_mode))

(***************************************************************************)
(* State                                                                   *)
(***************************************************************************)
VARIABLES
    file_len,               \* the file: its length in bytes
    pages,                  \* the file: page id -> [hdr, body], as last written
    open,                   \* a StreamDb handle exists
    use_compression,        \* config.use_compression
    current_size,
    document_index_root,
    trie_root,
    free_list_root,
    page_cache,             \* page id -> decoded bytes (never full in the model)
    cache_stats,
    quick_mode,
    transactions,
    empty_free_list_count,
    io_log,                 \* history: pager calls of the last operation
    last,                   \* history: the last call and what it returned
    written,                \* history: path -> blob of the write in effect
    uuids,                  \* number of uuids drawn
    opens,                  \* number of open_db calls
    tx_serials,             \* history: begin number of each open transaction
    tx_ids,                 \* history: id -> what begin_transaction said of it
    begun,                  \* number of begin_transaction calls
    tx_hist,                \* history: the outermost open transaction
    free_calls,             \* number of free_page calls made from outside
    pending                 \* history: how the last handle ended

fileVars == <<file_len, pages>>
memVars == <<use_compression, current_size, document_index_root, trie_root,
             free_list_root, page_cache, cache_stats, quick_mode, transactions,
             empty_free_list_count, io_log>>
histVars == <<last, written, uuids, opens, tx_serials, tx_ids, begun, tx_hist,
              free_calls, pending>>
vars == <<file_len, pages, open, use_compression, current_size,
          document_index_root, trie_root, free_list_root, page_cache,
          cache_stats, quick_mode, transactions, empty_free_list_count, io_log,
          last, written, uuids, opens, tx_serials, tx_ids, begun, tx_hist,
          free_calls, pending>>

\* the variables as the record the operations work on
St ==
    [file_len |-> file_len, pages |-> pages, budget |-> -1,
     use_compression |-> use_compression,
     current_size |-> current_size,
     document_index_root |-> document_index_root,
     trie_root |-> trie_root,
     free_list_root |-> free_list_root,
     page_cache |-> page_cache,
     cache_stats |-> cache_stats,
     quick_mode |-> quick_mode,
     transactions |-> transactions,
     empty_free_list_count |-> empty_free_list_count,
     io_log |-> io_log]

\* a public operation starts with an empty call history
St0 == [St EXCEPT !.io_log = <<>>]

Install(s) ==
    /\ file_len' = s.file_len
    /\ pages' = s.pages
    /\ use_compression' = s.use_compression
    /\ current_size' = s.current_size
    /\ document_index_root' = s.document_index_root
    /\ trie_root' = s.trie_root
    /\ free_list_root' = s.free_list_root
    /\ page_cache' = s.page_cache
    /\ cache_stats' = s.cache_stats
    /\ quick_mode' = s.quick_mode
    /\ transactions' = s.transactions
    /\ empty_free_list_count' = s.empty_free_list_count
    /\ io_log' = s.io_log

(***************************************************************************)
(* Inputs                                                                  *)
(***************************************************************************)
ValidPaths == {<<"a">>, <<"a", "/", "b">>}
InvalidPaths == {<<>>, <<"/", "a">>}
Paths == ValidPaths \cup InvalidPaths
Prefixes == {<<>>, <<"a">>, <<"a", "/">>}

Blob(tag, len) == IF len = 0 THEN <<>> ELSE <<BlobSlice(tag, 0, len)>>
\* no chunk, one byte-sized chunk, and one full chunk plus one byte
Blobs == {Blob("x", 0), Blob("y", 5),
          Blob("x", PAGE_SIZE - PAGE_HEADER_SIZE + 1)}

NoWrite == [live |-> FALSE, data |-> <<>>]
NoTxId == [state |-> "never", serial |-> 0]
NoGets == [p \in ValidPaths |-> [ok |-> FALSE, err |-> "", data |-> <<>>]]
Outcome(r) == [ok |-> r.ok, err |-> r.err, data |-> r.data]

NoCall ==
    [op |-> "none", path |-> <<>>, data |-> <<>>, tx |-> -1, ok |-> TRUE,
     err |-> "", out |-> <<>>, paths |-> <<>>, id |-> -1, was_live |-> FALSE,
     id_state |-> "never", want_serial |-> 0, got_serial |-> 0, why |-> "none",
     tx_writes |-> <<>>, tx_frees |-> <<>>, pages_before |-> EmptyMap,
     txs_before |-> <<>>, roots_before |-> <<>>, in_use_before |-> {},
     handed |-> <<>>, reads |-> <<>>, lists |-> <<>>]
Call(op, r) == [NoCall EXCEPT !.op = op, !.ok = r.ok, !.err = r.err]

Init ==
    /\ file_len = 0
    /\ pages = EmptyMap
    /\ open = FALSE
    /\ use_compression = FALSE
    /\ current_size = 0
    /\ document_index_root = VersionedLink(-1, 0)
    /\ trie_root = VersionedLink(-1, 0)
    /\ free_list_root = VersionedLink(-1, 0)
    /\ page_cache = EmptyMap
    /\ cache_stats = [hits |-> 0, misses |-> 0]
    /\ quick_mode = FALSE
    /\ transactions = <<>>
    /\ empty_free_list_count = 0
    /\ io_log = <<>>
    /\ last = NoCall
    /\ written = [p \in ValidPaths |-> NoWrite]
    /\ uuids = 0
    /\ opens = 0
    /\ tx_serials = <<>>
    /\ tx_ids = [t \in 0..MaxTx |-> NoTxId]
    /\ begun = 0
    /\ free_calls = 0
    /\ tx_hist = [base |-> 0, paths |-> {}, nested |-> FALSE]
    /\ pending = [why |-> "none", path |-> <<>>, data |-> <<>>, gets |-> NoGets]

\* the handle is gone: its fields are those of no handle
DropHandle ==
    /\ open' = FALSE
    /\ use_compression' = FALSE
    /\ current_size' = 0
    /\ document_index_root' = VersionedLink(-1, 0)
    /\ trie_root' = VersionedLink(-1, 0)
    /\ free_list_root' = VersionedLink(-1, 0)
    /\ page_cache' = EmptyMap
    /\ cache_stats' = [hits |-> 0, misses |-> 0]
    /\ quick_mode' = FALSE
    /\ transactions' = <<>>
    /\ empty_free_list_count' = 0
    /\ io_log' = <<>>
    /\ tx_serials' = <<>>
    /\ tx_ids' = [t \in 0..MaxTx |-> NoTxId]
    /\ tx_hist' = [base |-> 0, paths |-> {}, nested |-> FALSE]

(***************************************************************************)
(* Operations                                                              *)
(***************************************************************************)
\* close_db flushes the mapping and the file; every write was flushed already
close_db(st) == st

OpenDb(uc, qm) ==
    /\ ~open
    /\ opens < MaxOpens
    /\ \E r \in {open_db(file_len, pages, uc, qm)} :
          /\ Install(IF r.ok THEN r.st ELSE NewHandle(file_len, pages, FALSE, FALSE))
          /\ open' = r.ok
          /\ last' = [Call("open_db", r) EXCEPT !.why = pending.why]
    /\ opens' = opens + 1
    /\ UNCHANGED <<free_calls, written, uuids, tx_serials, tx_ids, begun, tx_hist, pending>>

\* close_db, after which the host drops the handle
CloseDb ==
    /\ open
    /\ \E s \in {close_db(St0)} :
          /\ file_len' = s.file_len
          /\ pages' = s.pages
          /\ pending' = [why |-> "close", path |-> <<>>, data |-> <<>>,
                         gets |-> [p \in ValidPaths |-> Outcome(get(s, p))]]
    /\ DropHandle
    /\ last' = [NoCall EXCEPT !.op = "close_db"]
    /\ UNCHANGED <<free_calls, written, uuids, opens, begun>>

WriteDocument(p, data) ==
    /\ open
    /\ uuids < MaxWrites
    /\ \E r \in {write_document(St0, p, data, uuids + 1)} :
          /\ Install(r.st)
          /\ last' = [Call("write_document", r) EXCEPT
                        !.path = p, !.data = data, !.id = r.id,
                        !.in_use_before = InUsePages(St)]
    /\ uuids' = IF validate_path(p) THEN uuids + 1 ELSE uuids
    /\ written' = IF p \in ValidPaths
                  THEN [written EXCEPT ![p] = [live |-> TRUE, data |-> data]]
                  ELSE written
    /\ tx_hist' = IF p \in ValidPaths /\ transactions # <<>>
                  THEN [tx_hist EXCEPT !.paths = @ \cup {p}]
                  ELSE tx_hist
    /\ UNCHANGED <<free_calls, open, opens, tx_serials, tx_ids, begun, pending>>

GetDocument(p) ==
    /\ open
    /\ \E r \in {get(St0, p)} :
          /\ Install(r.st)
          /\ last' = [Call("get", r) EXCEPT !.path = p, !.out = r.data]
    /\ UNCHANGED <<free_calls, open, written, uuids, opens, tx_serials, tx_ids, begun,
                   tx_hist, pending>>

SearchPaths(q) ==
    /\ open
    /\ \E r \in {search_paths(St0, q)} :
          /\ Install(r.st)
          /\ last' = [Call("search_paths", r) EXCEPT !.path = q,
                                                    !.paths = r.paths]
    /\ UNCHANGED <<free_calls, open, written, uuids, opens, tx_serials, tx_ids, begun,
                   tx_hist, pending>>

DeleteByPath(p) ==
    /\ open
    /\ \E r \in {delete_by_path(St0, p)} :
          /\ Install(r.st)
          /\ last' = [Call("delete_by_path", r) EXCEPT
                        !.path = p,
                        !.was_live = (p \in ValidPaths /\ written[p].live)]
    /\ written' = IF p \in ValidPaths THEN [written EXCEPT ![p] = NoWrite]
                  ELSE written
    /\ UNCHANGED <<free_calls, open, uuids, opens, tx_serials, tx_ids, begun, tx_hist,
                   pending>>

BeginTransaction ==
    /\ open
    /\ begun < MaxTx
    /\ \E r \in {begin_transaction(St0)} :
          /\ Install(r.st)
          /\ last' = [Call("begin_transaction", r) EXCEPT !.id = r.id]
          /\ tx_ids' = [tx_ids EXCEPT ![r.id] =
                           [state |-> "open", serial |-> begun + 1]]
    /\ begun' = begun + 1
    /\ tx_serials' = Append(tx_serials, begun + 1)
    /\ tx_hist' = IF transactions = <<>>
                  THEN [base |-> AllocatedCount(St), paths |-> {},
                        nested |-> FALSE]
                  ELSE [tx_hist EXCEPT !.nested = TRUE]
    /\ UNCHANGED <<free_calls, open, written, uuids, opens, pending>>

\* the history kept of a commit or rollback called with id t
EndOfTx(op, r, t) ==
    /\ last' = [Call(op, r) EXCEPT
                  !.tx = t,
                  !.id_state = IF t \in DOMAIN tx_ids THEN tx_ids[t].state
                               ELSE "never",
                  !.want_serial = IF t \in DOMAIN tx_ids THEN tx_ids[t].serial
                                  ELSE 0,
                  !.got_serial = IF InvalidTxId(St, t) THEN 0
                                 ELSE tx_serials[t + 1],
                  !.tx_writes = IF InvalidTxId(St, t) THEN <<>>
                                ELSE transactions[t + 1].writes,
                  !.tx_frees = IF InvalidTxId(St, t) THEN <<>>
                               ELSE transactions[t + 1].frees,
                  !.pages_before = pages,
                  !.txs_before = transactions,
                  !.roots_before = <<document_index_root, trie_root,
                                     free_list_root>>]
    /\ tx_serials' = IF InvalidTxId(St, t) THEN tx_serials
                     ELSE RemoveAt(tx_serials, t)
    /\ tx_ids' = IF InvalidTxId(St, t) THEN tx_ids
                 ELSE [tx_ids EXCEPT ![t].state = "closed"]

CommitTransaction(t) ==
    /\ open
    /\ \E r \in {commit_transaction(St0, t)} :
          Install(r.st) /\ EndOfTx("commit_transaction", r, t)
    /\ UNCHANGED <<free_calls, open, written, uuids, opens, begun, tx_hist, pending>>

RollbackTransaction(t) ==
    /\ open
    /\ \E r \in {rollback_transaction(St0, t)} :
          Install(r.st) /\ EndOfTx("rollback_transaction", r, t)
    /\ UNCHANGED <<free_calls, open, written, uuids, opens, begun, tx_hist, pending>>

\* the process is aborted during write_document(p, data), after k file writes
CrashInWrite(p, data, k) ==
    /\ open
    /\ uuids < MaxWrites
    /\ \E r \in {write_document([St0 EXCEPT !.budget = k], p, data, uuids + 1)} :
          /\ file_len' = r.st.file_len
          /\ pages' = r.st.pages
    /\ DropHandle
    /\ uuids' = uuids + 1
    /\ pending' = [why |-> "crash", path |-> p, data |-> data, gets |-> NoGets]
    /\ last' = [NoCall EXCEPT !.op = "abort", !.path = p, !.data = data]
    /\ UNCHANGED <<free_calls, written, opens, begun>>

BindAddonPath(p) ==
    /\ open
    /\ \E r \in {bind_addon_path(St0, p)} :
          /\ Install(r.st)
          /\ last' = [Call("bind_addon_path", r) EXCEPT !.path = p]
    /\ UNCHANGED <<free_calls, open, written, uuids, opens, tx_serials, tx_ids, begun,
                   tx_hist, pending>>

StartStream(p) ==
    /\ open
    /\ \E r \in {start_stream(St0, p)} :
          /\ Install(r.st)
          /\ last' = [Call("start_stream", r) EXCEPT !.path = p, !.id = r.id]
    /\ UNCHANGED <<free_calls, open, written, uuids, opens, tx_serials, tx_ids, begun,
                   tx_hist, pending>>

NextStreamChunk(stream_id) ==
    /\ open
    /\ cache_stats.hits + cache_stats.misses < MaxReads
    /\ \E r \in {next_stream_chunk(St0, stream_id)} :
          /\ Install(r.st)
          /\ last' = [Call("next_stream_chunk", r) EXCEPT
                        !.id = stream_id, !.out = r.data, !.handed = r.next]
    /\ UNCHANGED <<free_calls, open, written, uuids, opens, tx_serials, tx_ids, begun,
                   tx_hist, pending>>

SetQuickMode(enabled) ==
    /\ open
    /\ Install(set_quick_mode(St0, enabled))
    /\ last' = [NoCall EXCEPT !.op = "set_quick_mode"]
    /\ UNCHANGED <<free_calls, open, written, uuids, opens, tx_serials, tx_ids, begun,
                   tx_hist, pending>>

\* the bytes a corrupted payload holds: as many, and not the ones stored
Corrupted(body) == [body EXCEPT !.data = <<Garbage(ByteLen(@))>>]

\* something outside the program changes a payload byte of data page p
CorruptPage(p) ==
    /\ open
    /\ p < FilePages(St)
    /\ PageAt(St, p).hdr.flags = FLAG_DATA_PAGE
    /\ PageAt(St, p).hdr.data_length > 0
    /\ PageAt(St, p).body # Corrupted(PageAt(St, p).body)
    /\ pages' = PutPage(pages, p,
                        [PageAt(St, p) EXCEPT !.body = Corrupted(@)])
    /\ last' = [NoCall EXCEPT !.op = "corrupt", !.id = p]
    /\ UNCHANGED <<free_calls, file_len, open, memVars, written, uuids, opens, tx_serials,
                   tx_ids, begun, tx_hist, pending>>

\* what a reader thread works on when k file writes of a mutation that started
\* in st have reached the file (cut): the file as it is then, the cache
\* without the pages the mutation has written to, the handle as in st
MidState(st, cut) ==
    [st EXCEPT !.file_len = cut.file_len,
               !.pages = cut.pages,
               !.page_cache = [q \in {x \in DOMAIN @ : PageAt(st, x) = PageAt(cut, x)}
                                 |-> @[q]]]

ListOutcome(r) == [ok |-> r.ok, err |-> r.err, paths |-> r.paths]

\* write_document(p, data) on the writer thread while a reader thread calls
\* get(q) and search_paths(q) after the k-th file write of the writer; for
\* reads that leave the handle as it is
ReadDuringWrite(p, data, q, k) ==
    /\ open
    /\ uuids < MaxWrites
    /\ \E w \in {write_document(St0, p, data, uuids + 1)},
          mid \in {MidState(St0, write_document([St0 EXCEPT !.budget = k],
                                                p, data, uuids + 1).st)} :
          /\ get(mid, q).st = mid
          /\ search_paths(mid, q).st = mid
          /\ Install(w.st)
          /\ last' = [Call("read_during_write", w) EXCEPT
                        !.path = p, !.data = data, !.paths = <<q>>,
                        !.reads = <<Outcome(get(St0, q)), Outcome(get(mid, q)),
                                    Outcome(get(w.st, q))>>,
                        !.lists = <<ListOutcome(search_paths(St0, q)),
                                    ListOutcome(search_paths(mid, q)),
                                    ListOutcome(search_paths(w.st, q))>>]
    /\ uuids' = IF validate_path(p) THEN uuids + 1 ELSE uuids
    /\ written' = IF p \in ValidPaths
                  THEN [written EXCEPT ![p] = [live |-> TRUE, data |-> data]]
                  ELSE written
    /\ UNCHANGED <<free_calls, open, opens, tx_serials, tx_ids, begun, tx_hist, pending>>

\* allocate_page, called as the pager's clients call it
AllocatePage ==
    /\ open
    /\ FilePages(St) < MaxFilePages
    /\ \E r \in {allocate_page(St0)} :
          /\ Install(r.st)
          /\ last' = [Call("allocate_page", r) EXCEPT !.id = r.id]
    /\ UNCHANGED <<free_calls, open, written, uuids, opens, tx_serials, tx_ids, begun,
                   tx_hist, pending>>

\* free_page of a page the caller holds
FreePage(p) ==
    /\ open
    /\ free_calls < MaxFrees
    /\ FilePages(St) < MaxFilePages
    /\ p \in InUsePages(St)
    /\ \E r \in {free_page(St0, p)} :
          /\ Install(r.st)
          /\ last' = [Call("free_page", r) EXCEPT !.id = p]
    /\ free_calls' = free_calls + 1
    /\ UNCHANGED <<open, written, uuids, opens, tx_serials, tx_ids, begun,
                   tx_hist, pending>>

\* trie_insert, called as write_document (line 643) and bind_addon_path
\* (line 852) call it, with a fresh document id
TrieInsert(p) ==
    /\ open
    /\ uuids < MaxWrites
    /\ \E r \in {trie_insert(St0, p, uuids + 1)} :
          /\ Install(r.st)
          /\ last' = [Call("trie_insert", r) EXCEPT !.path = p, !.id = uuids + 1]
    /\ uuids' = uuids + 1
    /\ UNCHANGED <<free_calls, open, written, opens, tx_serials, tx_ids, begun,
                   tx_hist, pending>>

\* recover, called as initialize calls it (line 219): on the handle open_db
\* has just built, over a file that exists
Recover ==
    /\ ~open
    /\ file_len > 0
    /\ opens < MaxOpens
    /\ \E r \in {recover(NewHandle(file_len, pages, FALSE, FALSE))} :
          /\ Install(IF r.ok THEN r.st
                     ELSE NewHandle(r.st.file_len, r.st.pages, FALSE, FALSE))
          /\ open' = r.ok
          /\ last' = [Call("recover", r) EXCEPT !.why = pending.why,
                                                !.pages_before = pages]
    /\ opens' = opens + 1
    /\ UNCHANGED <<free_calls, written, uuids, tx_serials, tx_ids, begun, tx_hist,
                   pending>>

MaxCrashPoint == 4
CrashPaths == {<<"a">>}
CrashBlobs == {Blob("x", PAGE_SIZE - PAGE_HEADER_SIZE + 1)}
TxIds == -1..MaxTx

\* documents: open, write, read, search, delete, close and abort
Next ==
    \/ \E uc \in BOOLEAN, qm \in BOOLEAN : OpenDb(uc, qm)
    \/ CloseDb
    \/ \E p \in Paths, d \in Blobs : WriteDocument(p, d)
    \/ \E p \in Paths : GetDocument(p)
    \/ \E q \in Prefixes : SearchPaths(q)
    \/ \E p \in Paths : DeleteByPath(p)
    \/ \E p \in CrashPaths, d \in CrashBlobs, k \in 0..MaxCrashPoint :
           CrashInWrite(p, d, k)

Spec == Init /\ [][Next]_vars

\* transactions as the source has them: begin, commit, rollback around writes
NextTx ==
    \/ \E uc \in BOOLEAN : OpenDb(uc, FALSE)
    \/ \E p \in ValidPaths, d \in Blobs : WriteDocument(p, d)
    \/ BeginTransaction
    \/ \E t \in TxIds : CommitTransaction(t)
    \/ \E t \in TxIds : RollbackTransaction(t)

SpecTx == Init /\ [][NextTx]_vars

(***************************************************************************)
(* Transactions with buffered intents.  Nothing in the source puts an      *)
(* entry into Transaction.writes or Transaction.frees; the two actions    *)
(* below are the design's "transactions buffer two ordered lists: page    *)
(* writes and page frees", for one transaction ("transactions are not    *)
(* nested and not concurrent").                                           *)
(***************************************************************************)
BufPages == {0, 1}
\* a payload that fits a page and one that is a byte too long
BufBlobs == {Blob("y", 5), Blob("x", PAGE_SIZE - PAGE_HEADER_SIZE + 1)}

TxBufferWrite(t, page_id, data) ==
    /\ open
    /\ ~InvalidTxId(St, t)
    /\ Len(transactions[t + 1].writes) < MaxIntents
    /\ page_id < FilePages(St)
    /\ page_id # free_list_root.page_id
    /\ transactions' = [transactions EXCEPT ![t + 1].writes =
                           Append(@, [page_id |-> page_id, data |-> data,
                                      version |-> 0])]
    /\ last' = [NoCall EXCEPT !.op = "buffer_write", !.tx = t]
    /\ UNCHANGED <<free_calls, fileVars, open, use_compression, current_size,
                   document_index_root, trie_root, free_list_root, page_cache,
                   cache_stats, quick_mode, empty_free_list_count, io_log,
                   written, uuids, opens, tx_serials, tx_ids, begun, tx_hist,
                   pending>>

TxBufferFree(t, page_id) ==
    /\ open
    /\ ~InvalidTxId(St, t)
    /\ Len(transactions[t + 1].frees) < MaxIntents
    /\ page_id < FilePages(St)
    /\ transactions' = [transactions EXCEPT ![t + 1].frees = Append(@, page_id)]
    /\ last' = [NoCall EXCEPT !.op = "buffer_free", !.tx = t]
    /\ UNCHANGED <<free_calls, fileVars, open, use_compression, current_size,
                   document_index_root, trie_root, free_list_root, page_cache,
                   cache_stats, quick_mode, empty_free_list_count, io_log,
                   written, uuids, opens, tx_serials, tx_ids, begun, tx_hist,
                   pending>>

\* the ids commit and rollback are called with: the transaction's, and two
\* that name none
BufTxIds == {-1, 0, 1}

\* one transaction in the life of a handle
NextBuf ==
    \/ OpenDb(FALSE, FALSE)
    \/ WriteDocument(<<"a">>, Blob("x", 5))
    \/ begun = 0 /\ BeginTransaction
    \/ \E pg \in BufPages, d \in BufBlobs : TxBufferWrite(0, pg, d)
    \/ \E pg \in BufPages : TxBufferFree(0, pg)
    \/ \E t \in BufTxIds : CommitTransaction(t)
    \/ \E t \in BufTxIds : RollbackTransaction(t)

SpecBuf == Init /\ [][NextBuf]_vars

(***************************************************************************)
(* Documents read while they are written, streamed, aliased and corrupted  *)
(***************************************************************************)
\* an accepted path, and one path for each way validate_path rejects
DocValidPaths == {<<"a">>}
DocPaths ==
    DocValidPaths \cup InvalidPaths
    \cup {<<"\\", "a">>, <<"a", ".", ".">>, <<"a", ":", ":", "b">>}
\* one chunk, and two chunks
DocBlobs == {Blob("y", 5), Blob("x", PAGE_SIZE - PAGE_HEADER_SIZE + 1)}
PageIds == {0, 1, 2}
StreamIds == {-1} \cup PageIds

NextDoc ==
    \/ \E qm \in BOOLEAN : OpenDb(FALSE, qm)
    \/ \E p \in DocPaths, d \in DocBlobs : WriteDocument(p, d)
    \/ \E p \in DocPaths : GetDocument(p)
    \/ \E p \in DocPaths : DeleteByPath(p)
    \/ \E p \in DocPaths \cup ValidPaths : BindAddonPath(p)
    \/ \E p \in DocPaths : StartStream(p)
    \/ \E id \in StreamIds : NextStreamChunk(id)
    \/ \E b \in BOOLEAN : SetQuickMode(b)
    \/ \E pg \in PageIds : CorruptPage(pg)
    \/ \E p \in DocValidPaths, d \in DocBlobs, q \in DocValidPaths,
          k \in 0..MaxCrashPoint : ReadDuringWrite(p, d, q, k)

SpecDoc == Init /\ [][NextDoc]_vars

(***************************************************************************)
(* The allocator on its own                                                *)
(***************************************************************************)
FreeIds == {0, 1}

NextAlloc ==
    \/ OpenDb(FALSE, FALSE)
    \/ AllocatePage
    \/ \E p \in FreeIds : FreePage(p)

SpecAlloc == Init /\ [][NextAlloc]_vars

(***************************************************************************)
(* The pager's clients on their own: the allocator, the trie and recovery, *)
(* called as the public operations call them                               *)
(***************************************************************************)
NextPager ==
    \/ OpenDb(FALSE, FALSE)
    \/ CloseDb
    \/ WriteDocument(<<"a">>, Blob("y", 5))
    \/ \E p \in DocValidPaths : TrieInsert(p)
    \/ FilePages(St) < MaxPagerPages /\ AllocatePage
    \/ \E p \in PageIds : FreePage(p)
    \/ \E id \in PageIds : NextStreamChunk(id)
    \/ Recover

SpecPager == Init /\ [][NextPager]_vars

\* the operations that set the length of the file
NextFileLen ==
    \/ OpenDb(FALSE, FALSE)
    \/ CloseDb
    \/ WriteDocument(<<"a">>, Blob("y", 5))
    \/ FilePages(St) < MaxPagerPages /\ AllocatePage
    \/ \E p \in FreeIds : FreePage(p)
    \/ Recover

SpecFileLen == Init /\ [][NextFileLen]_vars

(***************************************************************************)
(* Properties                                                              *)
(***************************************************************************)
Range(seq) == {seq[k] : k \in 1..Len(seq)}
IsPrefix(s, t) == Len(s) <= Len(t) /\ SubSeq(t, 1, Len(s)) = s
\* the paths written and not deleted since
LivePaths == {p \in ValidPaths : written[p].live}
IsNotFound(r) == ~r.ok /\ r.err = "NotFound"
ReturnsBytes(r, data) == r.ok /\ r.data = Normalize(data)
\* the pager calls of a commit that applies every write, then every free
ExpectedLog(writes, frees) ==
    [k \in 1..Len(writes) |-> <<"write", writes[k].page_id>>]
    \o [k \in 1..Len(frees) |-> <<"free", frees[k]>>]

\* C1: write_document of a valid path on an opened database succeeds, and from
\* then on get of that path returns exactly the bytes written last, until
\* delete_by_path of that path.
C1_GetReturnsWritten ==
    /\ (last.op = "write_document" /\ last.path \in ValidPaths) => last.ok
    /\ open => \A p \in LivePaths : ReturnsBytes(get(St, p), written[p].data)

\* C2: delete_by_path of a written path succeeds and get of it then fails with
\* NotFound; delete_by_path of a path never written fails with NotFound; get
\* of a path that is not live fails with NotFound.
C2_DeleteThenNotFound ==
    /\ (last.op = "delete_by_path" /\ last.path \in ValidPaths) =>
           IF last.was_live
           THEN last.ok /\ IsNotFound(get(St, last.path))
           ELSE ~last.ok /\ last.err = "NotFound"
    /\ open => \A p \in ValidPaths \ LivePaths : IsNotFound(get(St, p))

\* C3: for every prefix, the empty one included, search_paths succeeds and
\* returns exactly the live paths that start with the prefix.
C3_PrefixClosure ==
    open => \A q \in Prefixes :
                /\ search_paths(St, q).ok
                /\ Range(search_paths(St, q).paths)
                     = {p \in LivePaths : StartsWith(p, q)}

\* C4: after the process is aborted between two file writes of
\* write_document(P, B), open_db succeeds and get(P) fails with NotFound or
\* returns the whole of B.
C4_CrashSafe ==
    (last.op = "open_db" /\ last.why = "crash") =>
        /\ last.ok
        /\ \/ IsNotFound(get(St, pending.path))
           \/ ReturnsBytes(get(St, pending.path), pending.data)

\* C5: after close_db and open_db on the same file, open_db succeeds and get
\* of every live path returns what it returned before the close.
C5_DurableAcrossReopen ==
    (last.op = "open_db" /\ last.why = "close") =>
        /\ last.ok
        /\ \A p \in LivePaths :
               get(St, p).ok /\ Outcome(get(St, p)) = pending.gets[p]

\* C6: after begin_transaction, write_document calls and rollback_transaction,
\* as many pages are allocated as before the begin, and get of every path
\* written inside the transaction fails with NotFound.
C6_RollbackNoTrace ==
    (last.op = "rollback_transaction" /\ last.ok /\ ~tx_hist.nested) =>
        /\ AllocatedCount(St) = tx_hist.base
        /\ \A p \in tx_hist.paths : IsNotFound(get(St, p))

\* C7: commit_transaction either returns Ok having applied every buffered
\* write and free, or returns an error having changed no page and no root.
C7_CommitAtomic ==
    last.op = "commit_transaction" =>
        IF last.ok
        THEN io_log = ExpectedLog(last.tx_writes, last.tx_frees)
        ELSE /\ pages = last.pages_before
             /\ <<document_index_root, trie_root, free_list_root>>
                  = last.roots_before

\* C8: the pager calls of commit_transaction are the transaction's writes in
\* insertion order followed by its frees in insertion order, all of them when
\* it returns Ok and a prefix of them when it returns an error: no free comes
\* before the last write.
C8_WritesThenFrees ==
    last.op = "commit_transaction" =>
        /\ IsPrefix(io_log, ExpectedLog(last.tx_writes, last.tx_frees))
        /\ last.ok => io_log = ExpectedLog(last.tx_writes, last.tx_frees)

\* a commit that applied two writes to different pages and then a free
C8_Witness ==
    /\ last.op = "commit_transaction"
    /\ last.ok
    /\ Len(last.tx_writes) = 2
    /\ last.tx_writes[1].page_id # last.tx_writes[2].page_id
    /\ Len(last.tx_frees) >= 1
    /\ io_log = ExpectedLog(last.tx_writes, last.tx_frees)

\* C9: while a transaction holds a buffered write of a page, a read of that
\* page returns the bytes buffered last for it.
C9_ReadYourWrites ==
    open =>
        \A t \in 1..Len(transactions) :
            \A k \in 1..Len(transactions[t].writes) :
                (\A j \in (k + 1)..Len(transactions[t].writes) :
                     transactions[t].writes[j].page_id
                       # transactions[t].writes[k].page_id)
                => ReturnsBytes(read_raw_page(St, transactions[t].writes[k].page_id),
                                transactions[t].writes[k].data)

\* C10: commit_transaction and rollback_transaction called with the id of an
\* open transaction end that transaction; called with any other id they fail
\* with InvalidInput and change neither the open transactions nor a page.
C10_TxIdStable ==
    last.op \in {"commit_transaction", "rollback_transaction"} =>
        IF last.id_state = "open"
        THEN last.ok /\ last.got_serial = last.want_serial
        ELSE /\ ~last.ok
             /\ last.err = "InvalidInput"
             /\ pages = last.pages_before
             /\ transactions = last.txs_before

\* the operations that take a document path
PathOps == {"write_document", "get", "delete_by_path", "bind_addon_path"}
Roots == <<document_index_root, trie_root, free_list_root>>

\* C11: write_document, get, delete_by_path and bind_addon_path fail with
\* InvalidInput exactly when validate_path rejects the path, and a rejected
\* call changes no byte of the file and no root.
C11_PathValidation ==
    [][last'.op \in PathOps =>
         /\ (~last'.ok /\ last'.err = "InvalidInput")
              <=> ~validate_path(last'.path)
         /\ ~validate_path(last'.path) =>
              /\ file_len' = file_len
              /\ pages' = pages
              /\ Roots' = Roots]_vars

\* the payload stored in data page p is not the one its header's CRC is of
PayloadCorrupt(st, p) ==
    /\ p < FilePages(st)
    /\ PageAt(st, p).hdr.flags = FLAG_DATA_PAGE
    /\ PageAt(st, p).hdr.data_length > 0
    /\ compute_crc(BufOf(PageAt(st, p).body, PageAt(st, p).hdr.data_length))
         # PageAt(st, p).hdr.crc

\* C12: the read get makes of a data page whose payload no longer matches the
\* CRC in its header fails with InvalidData when quick mode is off, also when
\* the page was read before it was corrupted, and returns bytes when quick
\* mode is on.
C12_CrcSurfaced ==
    open =>
        \A p \in PageIds :
            PayloadCorrupt(St, p) =>
                IF quick_mode THEN read_raw_page(St, p).ok
                ELSE /\ ~read_raw_page(St, p).ok
                     /\ read_raw_page(St, p).err = "InvalidData"

\* C13: delete_by_path(P) right after write_document(P, B) succeeds and leaves
\* in use exactly the pages that were in use before the write, the pages of
\* the free list itself apart.
C13_WriteDeleteRestores ==
    [][(/\ last.op = "write_document"
        /\ last.path \in ValidPaths
        /\ last'.op = "delete_by_path"
        /\ last'.path = last.path)
       => /\ last'.ok
          /\ InUsePages(St)' = last.in_use_before]_vars

\* C14: bind_addon_path of a path that names no document yet, while a document
\* is live, succeeds and makes the path an alias: get of it returns the bytes
\* of a live document (and, by C1 and C2, each alias answers until it is
\* deleted itself).
C14_AliasKeepsDocument ==
    (/\ last.op = "bind_addon_path"
     /\ last.path \in ValidPaths \ LivePaths
     /\ LivePaths # {})
    => /\ last.ok
       /\ \E p \in LivePaths :
              ReturnsBytes(get(St, last.path), written[p].data)

\* the payloads a caller collects who starts at stream_id and goes on with
\* each id next_stream_chunk hands back, until that id is -1
RECURSIVE StreamWalk(_, _, _, _)
StreamWalk(st, stream_id, acc, fuel) ==
    IF stream_id = -1 THEN OkData(st, acc)
    ELSE IF fuel = 0 THEN Err(st, "Diverges")
    ELSE Let(next_stream_chunk(st, stream_id), LAMBDA r :
         IF ~r.ok THEN Err(r.st, r.err)
         ELSE IF r.next = <<>> THEN Err(r.st, "NoNextId")
         ELSE StreamWalk(r.st, r.next[1], ExtendFromSlice(acc, r.data),
                         fuel - 1))

StreamOf(st, path) ==
    Let(start_stream(st, path), LAMBDA s :
    IF ~s.ok THEN s ELSE StreamWalk(s.st, s.id, <<>>, FilePages(s.st) + 1))

\* C15: a successful next_stream_chunk hands back the id of the page that
\* follows the one it read, and for every live path the payloads collected
\* from start_stream on, until the id handed back is -1, are the bytes get
\* returns.
C15_StreamAgreesWithGet ==
    /\ (last.op = "next_stream_chunk" /\ last.ok) =>
           last.handed = <<PageAt(St, last.id).hdr.next_page_id>>
    /\ open => \A p \in LivePaths :
                   /\ StreamOf(St, p).ok
                   /\ get(St, p).ok
                   /\ StreamOf(St, p).data = get(St, p).data

\* C16: what get and search_paths return while a write_document runs is what
\* they return before it or what they return after it, and after
\* write_document(P, B) has returned get(P) returns B and search_paths finds P.
C16_ReaderAtomicity ==
    last.op = "read_during_write" =>
        /\ last.reads[2] \in {last.reads[1], last.reads[3]}
        /\ last.lists[2] \in {last.lists[1], last.lists[3]}
        /\ last.paths[1] = last.path =>
               /\ last.reads[3].ok
               /\ last.reads[3].data = Normalize(last.data)
               /\ last.lists[3].ok
               /\ last.path \in Range(last.lists[3].paths)

\* C17: a write_document that returns an error for a valid path leaves in use
\* exactly the pages that were in use before the call, and leaves the index
\* root and the trie root as they were.
C17_FailedWriteUndone ==
    [][(last'.op = "write_document" /\ ~last'.ok /\ validate_path(last'.path))
       => /\ InUsePages(St)' = InUsePages(St)
          /\ document_index_root' = document_index_root
          /\ trie_root' = trie_root]_vars

\* the pages of the chain that starts at page_id, in next order
RECURSIVE ChainFrom(_, _, _)
ChainFrom(pgs, page_id, fuel) ==
    IF page_id < 0 \/ fuel = 0 THEN <<>>
    ELSE <<page_id>>
         \o ChainFrom(pgs,
                      IF page_id \in DOMAIN pgs THEN pgs[page_id].hdr.next_page_id
                      ELSE ZeroPage.hdr.next_page_id,
                      fuel - 1)

\* the page of the index, the pages of the trie nodes reachable from the
\* root, and the pages of the chains of the documents in the index
IndexPageSet(st) ==
    IF st.document_index_root.page_id < 0 THEN {}
    ELSE {st.document_index_root.page_id}

RECURSIVE TriePagesFrom(_, _, _)
TriePagesFrom(st, page_id, fuel) ==
    IF page_id < 0 \/ fuel = 0 THEN {}
    ELSE Let(ReadNode(st, page_id), LAMBDA n :
         IF ~n.ok THEN {page_id}
         ELSE {page_id}
              \cup UNION {TriePagesFrom(st, n.node.children[c], fuel - 1) :
                             c \in DOMAIN n.node.children})

TriePageSet(st) == TriePagesFrom(st, st.trie_root.page_id, FilePages(st) + 1)

DataPageSet(st) ==
    Let(read_index(st), LAMBDA ix :
    UNION {Range(ChainFrom(st.pages, ix.index[id].first_page_id,
                           FilePages(st) + 1)) : id \in DOMAIN ix.index})

FreePageSet(st) == FreePages(st) \cup FreeListPages(st)

\* in how many of the four sets page p is
SetsHolding(st, p) ==
    (IF p \in FreePageSet(st) THEN 1 ELSE 0)
    + (IF p \in IndexPageSet(st) THEN 1 ELSE 0)
    + (IF p \in TriePageSet(st) THEN 1 ELSE 0)
    + (IF p \in DataPageSet(st) THEN 1 ELSE 0)

\* C18: every page of the file is in exactly one of the sets of free pages,
\* index pages, trie pages and data pages of a live document.
C18_PagePartition ==
    open => \A p \in 0..(FilePages(St) - 1) : SetsHolding(St, p) = 1

\* C19: an allocate_page that pops a page leaves the file as long as it was
\* and the counter at 0; one that finds the free list empty grows the file by
\* one page and returns that page while the counter, counted up, is below 5,
\* and by 16 pages, returning the first of them and resetting the counter,
\* when it is the fifth in a row.
C19_GrowthPolicy ==
    [][(last'.op = "allocate_page" /\ last'.ok) =>
         IF pop_free_page(St).ok
         THEN /\ FilePages(St)' = FilePages(St)
              /\ empty_free_list_count' = 0
         ELSE IF empty_free_list_count + 1 < 5
         THEN /\ FilePages(St)' = FilePages(St) + 1
              /\ last'.id = FilePages(St)
              /\ empty_free_list_count' = empty_free_list_count + 1
         ELSE /\ FilePages(St)' = FilePages(St) + 16
              /\ last'.id = FilePages(St)
              /\ empty_free_list_count' = 0]_vars

\* the fifth allocate_page in a row on a new database: pages 0 to 3 were
\* handed out one by one, and the file now has 4 + 16 pages
C19_Witness ==
    /\ last.op = "allocate_page"
    /\ last.ok
    /\ last.id = 4
    /\ FilePages(St) = 20
    /\ empty_free_list_count = 0
    /\ free_calls = 0

NChunks(data) ==
    (ByteLen(data) + PAGE_SIZE - PAGE_HEADER_SIZE - 1)
        \div (PAGE_SIZE - PAGE_HEADER_SIZE)

HdrIn(pgs, p) == IF p \in DOMAIN pgs THEN pgs[p].hdr ELSE ZeroPage.hdr

\* the chain from head is n written data pages, linked both ways, ending in -1
ChainShape(pgs, head, n) ==
    \E chain \in {ChainFrom(pgs, head, n + 1)} :
        /\ Len(chain) = n
        /\ \A j, k \in 1..n : chain[j] = chain[k] => j = k
        /\ HdrIn(pgs, chain[1]).prev_page_id = -1
        /\ HdrIn(pgs, chain[n]).next_page_id = -1
        /\ \A k \in 1..(n - 1) :
               HdrIn(pgs, chain[k + 1]).prev_page_id = chain[k]
        /\ \A k \in 1..n :
               /\ HdrIn(pgs, chain[k]).flags = FLAG_DATA_PAGE
               /\ HdrIn(pgs, chain[k]).data_length > 0

\* C20: the pages write_document writes for a blob of n >= 1 chunks form,
\* from the first page it wrote, a doubly-linked chain of exactly n written
\* data pages without a cycle.
C20_ChainShape ==
    [][(/\ last'.op = "write_document"
        /\ validate_path(last'.path)
        /\ NChunks(last'.data) >= 1)
       => ChainShape(pages', ChunkLoop(St0, last'.data, -1, -1).id,
                     NChunks(last'.data))]_vars

\* the page ids the last operation passed to a write_raw_page that returned Ok
WrittenPages == {io_log[k][2] : k \in {j \in 1..Len(io_log) : io_log[j][1] = "write"}}

\* the header of page p describes the payload stored behind it: its CRC is the
\* CRC of the stored bytes and its length is their number
HeaderMatchesPayload(st, p) ==
    /\ PageAt(st, p).hdr.data_length = StoredLen(PageAt(st, p).body)
    /\ PageAt(st, p).hdr.crc
         = compute_crc(BufOf(PageAt(st, p).body, StoredLen(PageAt(st, p).body)))

\* a read of page p from the file, with quick mode off
CheckedRead(st, p) ==
    read_raw_page([st EXCEPT !.quick_mode = FALSE, !.page_cache = EmptyMap], p)

\* C21: after an operation, every page it wrote (data chunk, index, trie node)
\* has in its header the CRC-32 and the length of the payload bytes as stored,
\* with compression enabled or disabled, and a read of the page with quick
\* mode off passes the CRC check.
C21_StoredCrcMatches ==
    open => \A p \in WrittenPages :
                /\ HeaderMatchesPayload(St, p)
                /\ CheckedRead(St, p).ok

\* the flag byte of page p
FlagsOf(st, p) == PageAt(st, p).hdr.flags

\* C22: every page a structure refers to carries that structure's flag and no
\* other: 0x01 the pages of a document chain, 0x02 the pages of trie nodes
\* (the root included), 0x08 the index page, 0x04 the pages of the free list.
C22_FlagsMatchReferrer ==
    open =>
        /\ \A p \in DataPageSet(St) : FlagsOf(St, p) = FLAG_DATA_PAGE
        /\ \A p \in TriePageSet(St) : FlagsOf(St, p) = FLAG_TRIE_PAGE
        /\ \A p \in IndexPageSet(St) : FlagsOf(St, p) = FLAG_INDEX_PAGE
        /\ \A p \in FreeListPages(St) : FlagsOf(St, p) = FLAG_FREE_LIST_PAGE

\* the pages the roots reach: the index page, the trie nodes, and the chains
\* of the documents in the index
LivePageSet(st) == IndexPageSet(st) \cup TriePageSet(st) \cup DataPageSet(st)

\* C23: when recovery has finished on an existing file, every page of the
\* file that the roots do not reach is on the rebuilt free list (or holds it),
\* and no page of the free list, nor a page holding it, is reached by a root.
C23_RecoveredFreeList ==
    (last.op = "recover" /\ last.ok) =>
        /\ \A p \in 0..(FilePages(St) - 1) :
               p \notin LivePageSet(St) => p \in FreePageSet(St)
        /\ FreePageSet(St) \cap LivePageSet(St) = {}

\* C24: no operation makes the file shorter, and no page the file held is cut
\* off: not allocate_page, free_page, write_document, close_db, nor recovery
\* on an existing file.
C24_FileNeverShrinks ==
    [][/\ file_len' >= file_len
       /\ DOMAIN pages \subseteq DOMAIN pages']_vars

\* recovery has finished on an existing file that has a written page and no
\* free page, and the file holds what it held
C24_Witness ==
    /\ last.op = "recover"
    /\ last.ok
    /\ free_list_root.page_id = -1
    /\ FilePages(St) >= 1
    /\ last.pages_before # EmptyMap
    /\ pages = last.pages_before

\* the head page of the free list holds its last entry
HeadEmpties(st) ==
    /\ st.free_list_root.page_id # -1
    /\ ReadInt(PageAt(st, st.free_list_root.page_id).body, 2, 4) = 1

\* C25: allocate_page never returns a page that is in use, and never the page
\* the allocate_page before it returned; when it pops, the free list loses
\* exactly the page returned, and when the pop takes the head page's last
\* entry the root moves on to the next page of the chain.
C25_NoDoubleAllocation ==
    [][(last'.op = "allocate_page" /\ last'.ok) =>
         /\ last'.id \notin InUsePages(St)
         /\ (last.op = "allocate_page" /\ last.ok) => last'.id # last.id
         /\ pop_free_page(St).ok =>
              /\ last'.id \in FreePages(St)
              /\ FreePages(St)' = FreePages(St) \ {last'.id}
              /\ HeadEmpties(St) =>
                   free_list_root'.page_id
                     = ReadInt(PageAt(St, free_list_root.page_id).body, 1, 8)]_vars

\* C26: a file the program created keeps MAGIC in its first 8 bytes, page 0
\* of the page array never takes the superblock's place, and no open_db of it
\* fails on the magic.
C26_SuperblockIntact ==
    /\ file_len > 0 => (MagicIntact(St) /\ PageAt(St, 0) = SuperblockPage)
    /\ (last.op = "open_db" /\ ~last.ok) => last.err # "InvalidData"

\* the documents the trie resolves path to, and the documents whose index
\* entry lists path among its aliases
TrieResolves(st, path) ==
    LET l == get_document_id_by_path(st, path) IN IF l.ok THEN {l.id} ELSE {}
IndexLists(st, path) ==
    LET ix == read_index(st)
    IN  IF ~ix.ok THEN {}
        ELSE {d \in DOMAIN ix.index :
                \E k \in 1..Len(ix.index[d].paths) : ix.index[d].paths[k] = path}

Seen(r) == [ok |-> r.ok, err |-> r.err, data |-> r.data]
\* the pages in use that hold a page of document data
DataPagesInUse(st) ==
    {p \in InUsePages(st) : p \in DOMAIN st.pages /\ FlagsOf(st, p) = FLAG_DATA_PAGE}

MissRead(st, p) == read_raw_page([st EXCEPT !.page_cache = EmptyMap], p)

\* C29: every page in the page cache is cached with the bytes a read that
\* misses the cache returns for it.
C29_CacheCoherent ==
    open => \A p \in DOMAIN page_cache :
                /\ MissRead(St, p).ok
                /\ MissRead(St, p).data = page_cache[p]

(***************************************************************************)
(* Locks.  file, current_size, page_cache, cache_stats, transactions and   *)
(* empty_free_list_count are mutexes, mmap and the three roots are         *)
(* read-write locks; none is re-entrant.  A function is the sequence of    *)
(* its lock steps in program order: <<"lock", l, m>> takes l in mode m     *)
(* ("x" exclusive, "r" shared), <<"unlock", l, m>> drops the guard, a      *)
(* guard bound by let lives to the end of the function, and                *)
(* <<"call", f, "">> calls f.  The mapping is present (page_size >= 4096), *)
(* so the pager's reads and writes take mmap and not file.                 *)
(***************************************************************************)
Touch(l, m) == <<<<"lock", l, m>>, <<"unlock", l, m>>>>
Calls(f) == <<<<"call", f, "">>>>
When(c, steps) == IF c THEN steps ELSE <<>>

\* the steps of function f called in state st
LockSteps(f, st) ==
    CASE f = "open_db" -> Calls("initialize")
      [] f = "initialize" ->
            <<<<"lock", "file", "x">>>>
            \o When(st.file_len > 0,
                    Touch("document_index_root", "x") \o Touch("trie_root", "x")
                    \o Touch("free_list_root", "x"))
            \o Calls("recover")
      [] f = "recover" ->
            Touch("file", "x")
            \o When(FilePages(st) > 0, Calls("read_page_header"))
            \o <<<<"lock", "free_list_root", "x">>>>
            \o When(\E p \in DOMAIN st.pages : FlagsOf(st, p) = FLAG_INDEX_PAGE,
                    Calls("allocate_page") \o Calls("write_raw_page")
                    \o Touch("document_index_root", "x"))
            \o When(\E p \in DOMAIN st.pages : FlagsOf(st, p) = FLAG_TRIE_PAGE,
                    Calls("allocate_page") \o Calls("write_raw_page")
                    \o Touch("trie_root", "x"))
            \o Touch("current_size", "x")
      [] f = "read_page_header" -> Touch("mmap", "r")
      [] f = "read_raw_page" ->
            \* a hit holds page_cache while it counts; a miss has dropped it
            When(st.page_cache # EmptyMap,
                 <<<<"lock", "page_cache", "x">>>> \o Touch("cache_stats", "x")
                 \o <<<<"unlock", "page_cache", "x">>>>)
            \o Touch("page_cache", "x") \o Touch("cache_stats", "x")
            \o Calls("read_page_header") \o Touch("mmap", "r")
            \o Touch("page_cache", "x")
      [] f = "write_page_header" -> Touch("mmap", "x")
      [] f = "write_raw_page" ->
            Calls("write_page_header") \o Touch("mmap", "x")
            \o Touch("page_cache", "x")
      [] f = "pop_free_page" ->
            <<<<"lock", "free_list_root", "x">>>>
            \o When(st.free_list_root.page_id # -1,
                    Touch("mmap", "r") \o Calls("update_free_list_used"))
      [] f = "update_free_list_used" -> Touch("mmap", "x")
      [] f = "grow_file" ->
            <<<<"lock", "current_size", "x">>, <<"lock", "file", "x">>>>
      [] f = "allocate_page" ->
            Calls("pop_free_page")
            \o When(st.free_list_root.page_id # -1,
                    Touch("empty_free_list_count", "x"))
            \o <<<<"lock", "empty_free_list_count", "x">>>>
            \o When(st.empty_free_list_count + 1 >= MAX_CONSECUTIVE_EMPTY_FREE_LIST,
                    Calls("grow_file"))
            \o Touch("current_size", "x")
            \o <<<<"lock", "file", "x">>>>
      [] f = "read_index" ->
            <<<<"lock", "document_index_root", "r">>>>
            \o When(st.document_index_root.page_id # -1, Calls("read_raw_page"))
      [] f = "get_document_id_by_path" ->
            <<<<"lock", "trie_root", "r">>>>
            \o When(st.trie_root.page_id # -1, Calls("read_raw_page"))
      [] f = "trie_insert" ->
            Touch("trie_root", "r")
            \o When(st.trie_root.page_id = -1,
                    Calls("allocate_page") \o Touch("trie_root", "x")
                    \o Calls("write_raw_page"))
            \o Calls("read_raw_page") \o Calls("write_raw_page")
      [] f = "trie_delete" -> Touch("trie_root", "r")
      [] f = "write_document" ->
            Calls("allocate_page") \o Calls("allocate_page")
            \o Calls("write_raw_page") \o Calls("write_page_header")
            \o Calls("read_index")
            \o Touch("document_index_root", "r")
            \o <<<<"lock", "document_index_root", "r">>>>
            \o Calls("write_raw_page")
            \o <<<<"unlock", "document_index_root", "r">>>>
            \o Calls("trie_insert")
      [] f = "get" ->
            Calls("get_document_id_by_path") \o Calls("read_index")
            \o Calls("read_raw_page") \o Calls("read_page_header")
      [] f = "delete_by_path" ->
            Calls("get_document_id_by_path") \o Calls("read_index")
            \o Calls("read_page_header") \o Calls("trie_delete")
            \o Touch("document_index_root", "r")
            \o <<<<"lock", "document_index_root", "r">>>>
            \o Calls("write_raw_page")
            \o <<<<"unlock", "document_index_root", "r">>>>
      [] f = "commit_transaction" ->
            <<<<"lock", "transactions", "x">>>> \o Calls("write_raw_page")
      [] OTHER -> <<>>

\* the deepest chain of calls in LockSteps
MaxCallDepth == 6

\* a thread that holds the guards of held (pairs <<lock, mode>>) and takes l
\* in mode m waits for itself, unless both guards are shared
WaitsForItself(held, l, m) ==
    \E h \in held : h[1] = l /\ (h[2] = "x" \/ m = "x")

\* steps[k..] run by a thread that holds held: the lock it is stuck on, if any
\* (stuck), and the pairs <<lock held, lock taken>> up to there (order)
RECURSIVE LockWalk(_, _, _, _, _)
LockWalk(st, steps, k, held, fuel) ==
    IF k > Len(steps) \/ fuel = 0 THEN [stuck |-> {}, order |-> {}]
    ELSE Let(steps[k], LAMBDA s :
         IF s[1] = "lock"
         THEN IF WaitsForItself(held, s[2], s[3])
              THEN [stuck |-> {s[2]}, order |-> {}]
              ELSE Let(LockWalk(st, steps, k + 1, held \cup {<<s[2], s[3]>>}, fuel),
                       LAMBDA w :
                   [w EXCEPT !.order = @ \cup {<<h[1], s[2]>> : h \in held}])
         ELSE IF s[1] = "unlock"
         THEN LockWalk(st, steps, k + 1, held \ {<<s[2], s[3]>>}, fuel)
         ELSE Let(LockWalk(st, LockSteps(s[2], st), 1, held, fuel - 1), LAMBDA c :
              IF c.stuck # {} THEN c
              ELSE Let(LockWalk(st, steps, k + 1, held, fuel), LAMBDA w :
                   [w EXCEPT !.order = @ \cup c.order])))

LocksOf(f, st) == LockWalk(st, LockSteps(f, st), 1, {}, MaxCallDepth)

\* the operations that run on one handle at the same time, and the order in
\* which they take locks
SharedOps == {"write_document", "delete_by_path", "get", "commit_transaction"}
LockOrder(st) == UNION {LocksOf(f, st).order : f \in SharedOps}
LockNames(order) == {e[1] : e \in order} \cup {e[2] : e \in order}
RECURSIVE TakenAfter(_, _, _)
\* the locks taken, directly or through others, while one of from is held
TakenAfter(order, from, n) ==
    IF n = 0 THEN from
    ELSE TakenAfter(order, from \cup {e[2] : e \in {d \in order : d[1] \in from}},
                    n - 1)
OrderConsistent(st) ==
    Let(LockOrder(st), LAMBDA order :
    \A l \in LockNames(order) :
        l \notin TakenAfter(order, {e[2] : e \in {d \in order : d[1] = l}},
                            Cardinality(LockNames(order))))

\* C30: no operation takes a lock its own thread holds, and the operations
\* that share a handle take the locks in one order.
C30_NoSelfDeadlock ==
    [][last'.op \in SharedOps \cup {"open_db"} =>
          /\ LocksOf(last'.op, St).stuck = {}
          /\ OrderConsistent(St)]_vars

====
